---- MODULE Spec2Model ----
(***************************************************************************)
(* Proofmark: quality-gated model router.                                  *)
(*                                                                         *)
(* The model covers src/src/quality-gate.mjs (parseResponses,              *)
(* scoreResponse, qualityGate), src/src/router.mjs (createRouter,          *)
(* evaluate, evaluateWithExperiment) and the parts of                      *)
(* src/src/prompt-schema.mjs the router calls (selectVariant,              *)
(* validateOutput, recordMetric).                                          *)
(*                                                                         *)
(* Numbers: scores, probabilities and thresholds are integers in           *)
(* thousandths (0.70 is 700).  A raw provider text is a sequence of        *)
(* tokens: the six structural markers, whitespace, and content lines       *)
(* classified by the regular expressions of the scorer that match them.    *)
(***************************************************************************)
EXTENDS Integers, Sequences, FiniteSets, TLC

VARIABLES
  llmOutputText, \* the text a standalone user of the gate holds
  reports,   \* what qualityGate(llmOutputText) returned, call after call
  elsewhere, \* the calls made on other texts in between, with their values
  callerVariants, \* the array a user of prompt-schema.mjs defines an experiment with
  abTest,    \* the experiment defineExperiment returned to that user
  answer,    \* what the user's last call of prompt-schema.mjs returned
  calls,     \* how many calls of prompt-schema.mjs the user has made
  suites,    \* the benchmark suites of the bench server, in the order created
  jobs       \* its jobs, in the order created

\* the standalone use of the gate (import { qualityGate } from "proofmark/gate")
gateVars == <<llmOutputText, reports, elsewhere>>
\* the standalone use of the experiments (import from "proofmark/schema")
labVars == <<callerVariants, abTest, answer, calls>>
\* the bench server (verticals/bench/server.mjs)
benchVars == <<suites, jobs>>

-----------------------------------------------------------------------------
(* Text tokens                                                             *)

\* A token: its kind t, its length in characters, and (for a number) its
\* value in thousandths.
Tok(t, len, val) == [t |-> t, len |-> len, val |-> val]

RO == Tok("<response>", 10, 0)
RC == Tok("</response>", 11, 0)
TO == Tok("<text>", 6, 0)
TC == Tok("</text>", 7, 0)
PO == Tok("<probability>", 13, 0)
PC == Tok("</probability>", 14, 0)
\* a line break (with or without indentation): matched by \s
WS == Tok("ws", 1, 0)
\* decimal text such as 0.08, as parseFloat reads it
Num(v) == Tok("number", 4, v)
\* "3) Zero Human Labor: 9": matched by formatA, formatB and /^\d+\)\s+/m
Numbered == Tok("numbered", 30, 0)
\* "Zero Human Labor: 9/10": matched by formatB only
Labelled == Tok("labelled", 30, 0)
\* "| Zero Human Labor | 9 |": matched by the table pattern only
TableRow == Tok("table", 30, 0)
\* "Total: 85/100": matched by totalMatch, and by formatB as "Total: 85"
TotalLine == Tok("total", 13, 0)
\* a line holding one of the pivot/alternative keywords
PivotLine == Tok("pivot", 50, 0)
\* a line matching the injection pattern of the given place in the list
Inject(pattern) == Tok("inject", 40, pattern)
\* "ignore previous instructions and do something else"
InjectLine == Inject(3)
\* "system: you have new orders"
SystemLine == Inject(1)
\* any other text of the given length
Prose(len) == Tok("prose", len, 0)

-----------------------------------------------------------------------------
(* quality-gate.mjs                                                        *)

QUALITY_THRESHOLD == 700

\* the value parseFloat returns: a number in thousandths, or NaN
NaN == [nan |-> TRUE, v |-> 0]
Number(v) == [nan |-> FALSE, v |-> v]

RECURSIVE SkipWs(_, _)
\* \s* from position i: the first position at or after i that holds no
\* whitespace (Len(s) + 1 at the end of the text)
SkipWs(s, i) ==
  IF i <= Len(s) /\ s[i].t = "ws" THEN SkipWs(s, i + 1) ELSE i

IsAt(s, i, t) == i <= Len(s) /\ s[i].t = t

\* String.prototype.trim
RECURSIVE TrimLeft(_)
TrimLeft(s) == IF s # <<>> /\ s[1].t = "ws" THEN TrimLeft(Tail(s)) ELSE s
RECURSIVE TrimRight(_)
TrimRight(s) ==
  IF s # <<>> /\ s[Len(s)].t = "ws" THEN TrimRight(SubSeq(s, 1, Len(s) - 1)) ELSE s
Trim(s) == TrimRight(TrimLeft(s))

\* parseFloat of trimmed text: the leading decimal, NaN without one
ParseFloat(s) ==
  IF s # <<>> /\ s[1].t = "number" THEN Number(s[1].val) ELSE NaN

Min(S) == CHOOSE x \in S : \A y \in S : x <= y

\* The ends k of the second capture, given the </text> at j: what follows j is
\* \s*<probability>, then the capture up to a </probability> at k that is
\* followed by \s*</response>.
ProbEndsFrom(s, b) ==
  IF IsAt(s, b, "<probability>")
    THEN {k \in (b + 1)..Len(s) :
            s[k].t = "</probability>" /\ IsAt(s, SkipWs(s, k + 1), "</response>")}
    ELSE {}

ProbEnds(s, j) == ProbEndsFrom(s, SkipWs(s, j + 1))

\* The </text> positions at which the rest of the pattern can match, for a
\* match whose <text> is at a.
TextEnds(s, a) ==
  {j \in (a + 1)..Len(s) : s[j].t = "</text>" /\ ProbEnds(s, j) # {}}

NoMatch == [ok |-> FALSE, text |-> <<>>, prob |-> <<>>, last |-> 0]

\* the match with <text> at a, </text> at j, <probability> at b and
\* </probability> at k
Captures(s, a, j, b, k) ==
  [ok |-> TRUE,
   text |-> SubSeq(s, a + 1, j - 1),
   prob |-> SubSeq(s, b + 1, k - 1),
   last |-> SkipWs(s, k + 1)]

\* Both captures are lazy: the first </text> that lets the rest match, then
\* the first </probability>.
MatchFrom(s, a, ends) ==
  IF ends = {} THEN NoMatch
  ELSE Captures(s, a, Min(ends), SkipWs(s, Min(ends) + 1), Min(ProbEnds(s, Min(ends))))

MatchText(s, a) ==
  IF IsAt(s, a, "<text>") THEN MatchFrom(s, a, TextEnds(s, a)) ELSE NoMatch

\* one attempt of responseRegex at position i
MatchAt(s, i) ==
  IF IsAt(s, i, "<response>") THEN MatchText(s, SkipWs(s, i + 1)) ELSE NoMatch

\* responses.push({ text: match[1].trim(), probability: parseFloat(match[2].trim()) })
Unit(m) == [text |-> Trim(m.text), probability |-> ParseFloat(Trim(m.prob))]

RECURSIVE ScanFrom(_, _)
RECURSIVE ScanNext(_, _)
RECURSIVE ScanStep(_, _)
\* the exec loop: the leftmost match at or after i, then on from its end
ScanFrom(s, i) == ScanNext(s, {j \in i..Len(s) : MatchAt(s, j).ok})
\* starts: the positions at or after lastIndex where the pattern matches
ScanNext(s, starts) ==
  IF starts = {} THEN <<>> ELSE ScanStep(s, MatchAt(s, Min(starts)))
ScanStep(s, m) == <<Unit(m)>> \o ScanFrom(s, m.last + 1)

\* A variant of parseResponses whose pattern is shared by all calls and keeps
\* a lastIndex that earlier calls have moved.
parseResponsesSharedPattern(outputText) ==
  ScanFrom(outputText, 1 + Len(reports) + Len(elsewhere))

\* the pattern is made anew in every call, so its lastIndex starts at 0
parseResponses(outputText) == ScanFrom(outputText, 1)

-----------------------------------------------------------------------------
RECURSIVE SumLen(_, _, _)
\* the characters of the tokens lo..hi of s
SumLen(s, lo, hi) ==
  IF lo > hi THEN 0
  ELSE IF lo = hi THEN s[lo].len
  ELSE SumLen(s, lo, (lo + hi) \div 2) + SumLen(s, (lo + hi) \div 2 + 1, hi)

\* text.length
TextLength(text) == SumLen(text, 1, Len(text))

CountKind(text, kinds) == Cardinality({i \in 1..Len(text) : text[i].t \in kinds})

\* positions where ^ matches under the m flag
AtLineStart(text, i) == i = 1 \/ text[i - 1].t = "ws"

FormatA(text) ==
  Cardinality({i \in 1..Len(text) : text[i].t = "numbered" /\ AtLineStart(text, i)})
FormatB(text) == CountKind(text, {"numbered", "labelled", "total"})
ScoreTable(text) == CountKind(text, {"table"})
TotalMatch(text) == CountKind(text, {"total"}) > 0
HasPivot(text) == CountKind(text, {"pivot"}) > 0
\* the places of the six injection patterns in the list
injectionPatterns == 1..6
\* pattern.test(response.text)
PatternTest(pattern, text) ==
  \E i \in 1..Len(text) : text[i].t = "inject" /\ text[i].val = pattern
\* the patterns of the list that match the text
MatchedPatterns(text) == {p \in injectionPatterns : PatternTest(p, text)}
HasScores(text) ==
  \E i \in 1..Len(text) : text[i].t = "numbered" /\ AtLineStart(text, i)

Max2(a, b) == IF a >= b THEN a ELSE b
Min2(a, b) == IF a <= b THEN a ELSE b

Issue(category, severity) == [category |-> category, severity |-> severity]

\* One check: the issue it appends and what it deducts, nothing when it does
\* not fire.
Check(fires, category, severity, deduct) ==
  IF fires THEN [issues |-> <<Issue(category, severity)>>, deduct |-> deduct]
  ELSE [issues |-> <<>>, deduct |-> 0]

\* A variant of ProbabilityCheck without the isNaN test: every comparison
\* with NaN is false.
ProbabilityCheckRangeOnly(p) ==
  Check(~p.nan /\ (p.v < 0 \/ p.v > 1000), "probability", "critical", 300)

\* check 1: probability sanity
ProbabilityCheck(p) ==
  Check(p.nan \/ p.v < 0 \/ p.v > 1000, "probability", "critical", 300)

\* A variant of RubricCheck that looks at the numbered lines alone.
RubricCheckNumbered(fa, best, total) ==
  Check(0 < fa /\ fa < 10, "rubric", "warning", (100 * (10 - fa)) \div 10)

\* check 2: the rubric, by the best count of score-like items
RubricCheck(fa, best, total) ==
  IF best < 5 /\ ~total THEN Check(TRUE, "rubric", "info", 50)
  ELSE Check(best < 10 /\ fa > 0, "rubric", "warning", (100 * (10 - fa)) \div 10)

\* check 3: the total line
TotalCheck(best, total) ==
  IF ~total /\ best >= 5 THEN Check(TRUE, "rubric", "info", 30)
  ELSE Check(~total /\ best < 5, "rubric", "warning", 100)

\* checks 4 to 6: pivot or substance, injection artifacts, length
PivotCheck(pivot, len) == Check(~pivot /\ len < 300, "structure", "warning", 100)
\* A variant of InjectionCheck whose loop has no break.
InjectionCheckEveryPattern(inj) ==
  [issues |-> [k \in 1..Cardinality(inj) |-> Issue("injection", "critical")],
   deduct |-> 400 * Cardinality(inj)]

\* check 5: the loop over the patterns leaves at the first that matches
InjectionCheck(inj) == Check(inj # {}, "injection", "critical", 400)
ShortCheck(len) == Check(len < 100, "formatting", "warning", 200)
LongCheck(len) == Check(len > 10000, "formatting", "warning", 50)

RECURSIVE SumDeduct(_)
SumDeduct(cs) == IF cs = <<>> THEN 0 ELSE cs[1].deduct + SumDeduct(Tail(cs))

RECURSIVE ConcatIssues(_)
ConcatIssues(cs) == IF cs = <<>> THEN <<>> ELSE cs[1].issues \o ConcatIssues(Tail(cs))

\* A variant of Scored without Math.max(0, score).
ScoredUnclamped(checks) ==
  [score |-> 1000 - SumDeduct(checks), issues |-> ConcatIssues(checks)]

\* the checks that fired, in order: the score left and the issues
Scored(checks) ==
  [score |-> Max2(0, 1000 - SumDeduct(checks)), issues |-> ConcatIssues(checks)]

\* the six checks of scoreResponse, in the order the code makes them
ChecksOf(p, fa, best, total, pivot, inj, len) ==
  <<ProbabilityCheck(p), RubricCheck(fa, best, total), TotalCheck(best, total),
    PivotCheck(pivot, len), InjectionCheck(inj), ShortCheck(len), LongCheck(len)>>

\* the checks of scoreResponse on a unit
ResponseChecks(response) ==
  ChecksOf(response.probability,
           FormatA(response.text),
           Max2(FormatA(response.text),
                Max2(FormatB(response.text), ScoreTable(response.text))),
           TotalMatch(response.text),
           HasPivot(response.text),
           MatchedPatterns(response.text),
           TextLength(response.text))

scoreResponse(response) == Scored(ResponseChecks(response))

RECURSIVE SumScores(_)
SumScores(rs) == IF rs = <<>> THEN 0 ELSE rs[1].score + SumScores(Tail(rs))

\* a + b on numbers that may be NaN
Plus(a, b) == IF a.nan \/ b.nan THEN NaN ELSE Number(a.v + b.v)

RECURSIVE ProbSumFrom(_, _)
\* responses.reduce((sum, r) => sum + r.probability, 0)
ProbSumFrom(sum, rs) ==
  IF rs = <<>> THEN sum ELSE ProbSumFrom(Plus(sum, rs[1].probability), Tail(rs))
ProbSum(rs) == ProbSumFrom(Number(0), rs)

\* toFixed(3) of q / d thousandths, as thousandths (round half up)
Round(q, d) == (2 * q + d) \div (2 * d)

\* A variant of TagCheck that reports each unmatched tag on its own.
TagCheckEachTag(openTags, closeTags) ==
  [issues |-> [k \in 1..Max2(openTags - closeTags, closeTags - openTags)
                 |-> Issue("xml", "critical")],
   deduct |-> IF openTags # closeTags THEN 300 ELSE 0]

\* step 1: XML well-formedness
TagCheck(openTags, closeTags) == Check(openTags # closeTags, "xml", "critical", 300)
\* A variant of CountCheck that expects the five units its message names.
CountCheckOfFive(n) == Check(n < 5, "completeness", "warning", 150)

\* step 3: expected count
CountCheck(n) == Check(n < 3, "completeness", "warning", 150)
\* A variant of SumCheck that takes the probabilities for percentages.
SumCheckPercent(probSum) ==
  Check(~probSum.nan /\ probSum.v > 100000, "probability", "critical", 200)

\* step 4: probability sum (NaN > 1.0 is false)
SumCheck(probSum) == Check(~probSum.nan /\ probSum.v > 1000, "probability", "critical", 200)
\* A variant of ConsistencyCheck that deducts twice as much.
ConsistencyCheckDouble(flags) == Check(flags = {TRUE, FALSE}, "consistency", "warning", 200)

\* step 6: structural consistency
ConsistencyCheck(flags) == Check(flags = {TRUE, FALSE}, "consistency", "warning", 100)

\* The report for n >= 1 units.  q is compositeScore as a multiple of
\* 1 / (10 n) thousandths, clamped to [0, 1].
Composite(q, n, issues, responses) ==
  [score |-> Round(q, 10 * n),
   issues |-> issues,
   responses |-> responses,
   passesGate |-> q >= QUALITY_THRESHOLD * 10 * n,
   threshold |-> QUALITY_THRESHOLD]

Clamp(q, n) == Max2(0, Min2(10000 * n, q))

\* steps 5 and 6 and the composite: 0.4 of the document score, 0.6 of the
\* mean of the unit scores
Combine(responses, n, tag, count, sum, scores, consistency) ==
  Composite(Clamp(4 * (1000 - tag.deduct - count.deduct - sum.deduct - consistency.deduct) * n
                  + 6 * SumScores(scores), n),
            n,
            tag.issues \o count.issues \o sum.issues \o ConcatIssues(scores)
              \o consistency.issues,
            responses)

\* A variant of NoUnits without the early return: the document score alone
\* is reported.
NoUnitsScored(tag) ==
  [score |-> 400 - (4 * tag.deduct) \div 10,
   issues |-> tag.issues \o <<Issue("xml", "critical")>>,
   responses |-> <<>>,
   passesGate |-> FALSE,
   threshold |-> QUALITY_THRESHOLD]

\* A variant of NoUnits that goes on to the count check before it returns.
NoUnitsCounted(tag) ==
  [score |-> 0,
   issues |-> tag.issues \o <<Issue("xml", "critical")>> \o CountCheck(0).issues,
   responses |-> <<>>,
   passesGate |-> FALSE,
   threshold |-> QUALITY_THRESHOLD]

\* the report without units: the tag issue, if any, and the parse issue
NoUnits(tag) ==
  [score |-> 0,
   issues |-> tag.issues \o <<Issue("xml", "critical")>>,
   responses |-> <<>>,
   passesGate |-> FALSE,
   threshold |-> QUALITY_THRESHOLD]

GateOf(tag, responses) ==
  IF Len(responses) = 0 THEN NoUnits(tag)
  ELSE Combine(responses, Len(responses), tag, CountCheck(Len(responses)),
               SumCheck(ProbSum(responses)),
               [i \in 1..Len(responses) |-> scoreResponse(responses[i])],
               ConsistencyCheck({HasScores(responses[i].text) : i \in 1..Len(responses)}))

qualityGate(outputText) ==
  GateOf(TagCheck(CountKind(outputText, {"<response>"}),
                  CountKind(outputText, {"</response>"})),
         parseResponses(outputText))

-----------------------------------------------------------------------------
(* prompt-schema.mjs: the parts the router calls                           *)

\* a normalized weight, the exact quotient num / den
Weight(num, den) == [num |-> num, den |-> den]

\* v.weight || 1
WeightOr1(v) == IF v.weight = 0 THEN 1 ELSE v.weight

\* A variant of TotalWeight that adds the weights as given: a missing
\* weight adds nothing.
RECURSIVE TotalWeightGiven(_)
TotalWeightGiven(vs) ==
  IF vs = <<>> THEN 0 ELSE vs[1].weight + TotalWeightGiven(Tail(vs))

RECURSIVE TotalWeight(_)
TotalWeight(vs) == IF vs = <<>> THEN 0 ELSE WeightOr1(vs[1]) + TotalWeight(Tail(vs))

\* Each variant keeps its fields; its weight becomes its share of the total.
\* The metrics map starts empty: no variant has a list yet.
defineExperiment(name, vs) ==
  [name |-> name,
   variants |-> [k \in 1..Len(vs) |->
                   [vs[k] EXCEPT !.weight = Weight(WeightOr1(vs[k]), TotalWeight(vs))]]]

RECURSIVE Cumulative(_, _)
\* the numerator of cumulative after adding the first k weights
Cumulative(vs, k) == IF k = 0 THEN 0 ELSE vs[k].weight.num + Cumulative(vs, k - 1)

\* rand is Math.random() as the quotient rand.num / rand.den.  The first
\* variant with rand <= cumulative; the last one when none is.
\* the variant selectVariant settles on, given the set hit of the positions
\* whose cumulative weight reaches rand
Selected(vs, hit) == IF hit # {} THEN vs[Min(hit)] ELSE vs[Len(vs)]

\* A variant of selectVariant that asks for rand < cumulative.
selectVariantBelow(exp, rand) ==
  Selected(exp.variants,
           {k \in 1..Len(exp.variants) :
              rand.num * exp.variants[k].weight.den
                < Cumulative(exp.variants, k) * rand.den})

selectVariant(exp, rand) ==
  Selected(exp.variants,
           {k \in 1..Len(exp.variants) :
              rand.num * exp.variants[k].weight.den
                <= Cumulative(exp.variants, k) * rand.den})

\* The Standard Schema of scripts/test-experiment.mjs: every unit's text has
\* at least 50 characters and its probability is a number in [0, 1].  One
\* issue per field that fails.
UnitIssues(r) ==
  (IF TextLength(r.text) < 50 THEN <<[message |-> "text too short"]>> ELSE <<>>)
  \o (IF r.probability.nan \/ r.probability.v < 0 \/ r.probability.v > 1000
        THEN <<[message |-> "probability out of range"]>> ELSE <<>>)

RECURSIVE SchemaIssues(_)
SchemaIssues(responses) ==
  IF responses = <<>> THEN <<>>
  ELSE UnitIssues(responses[1]) \o SchemaIssues(Tail(responses))

\* what validateOutput makes of the issues the schema reports
Validation(issues) ==
  IF issues # <<>> THEN [valid |-> FALSE, issues |-> issues]
  ELSE [valid |-> TRUE, issues |-> <<>>]

validateOutput(variant, output) ==
  IF ~variant.outputSchema THEN [valid |-> TRUE, issues |-> <<>>]
  ELSE Validation(SchemaIssues(output))

\* A variant of recordMetric that puts the new sample first (unshift).
recordMetricFirst(metrics, variantId, metric) ==
  [id \in DOMAIN metrics \cup {variantId} |->
     IF id # variantId THEN metrics[id]
     ELSE IF id \in DOMAIN metrics THEN <<metric>> \o metrics[id]
     ELSE <<metric>>]

\* A variant of recordMetric that sets the variant's list anew on every call.
recordMetricReplacing(metrics, variantId, metric) ==
  [id \in DOMAIN metrics \cup {variantId} |->
     IF id # variantId THEN metrics[id] ELSE <<metric>>]

\* metrics is the Map of the experiment: a function from the variant ids that
\* have a list to their lists.  The sample's timestamp (Date.now()) is not
\* modelled.
recordMetric(metrics, variantId, metric) ==
  [id \in DOMAIN metrics \cup {variantId} |->
     IF id # variantId THEN metrics[id]
     ELSE IF id \in DOMAIN metrics THEN Append(metrics[id], metric)
     ELSE <<metric>>]

-----------------------------------------------------------------------------
(* The environment: what the providers answer                              *)

\* how many evaluations may run at once on the router
NumInv == 2
Invocations == 1..NumInv

\* Math.random() takes the values 0/RandSteps .. (RandSteps-1)/RandSteps
RandSteps == 10

\* one well-formed block: a heading, ten numbered rubric lines, the total and
\* a pivot line, with the declared probability p
GoodUnit(p) ==
  <<RO, WS, TO, WS, Prose(40), WS,
    Numbered, WS, Numbered, WS, Numbered, WS, Numbered, WS, Numbered, WS,
    Numbered, WS, Numbered, WS, Numbered, WS, Numbered, WS, Numbered, WS,
    TotalLine, WS, PivotLine, WS, TC, WS, PO, Num(p), PC, WS, RC>>

\* three well-formed blocks (VALID_OUTPUT of quality-gate.test.mjs)
GoodText == GoodUnit(80) \o <<WS>> \o GoodUnit(60) \o <<WS>> \o GoodUnit(70)
\* one block holding a few words
WeakText == <<RO, TO, Prose(5), TC, PO, Num(100), PC, RC>>
\* the empty string
EmptyText == <<>>

\* the texts a provider may answer with
Outputs == {GoodText, WeakText, EmptyText}

Providers == {"minimax", "openai", "anthropic"}

\* prompt tokens and latency (ms) of each provider's answers
PromptTokens == [minimax |-> 310, openai |-> 45, anthropic |-> 330]
LatencyOf == [minimax |-> 900, openai |-> 2500, anthropic |-> 4000]

\* token usage of an answer: about four characters a token
UsageOf(provider, text) ==
  [input_tokens |-> PromptTokens[provider],
   output_tokens |-> TextLength(text) \div 4,
   total_tokens |-> PromptTokens[provider] + TextLength(text) \div 4]

\* The value a provider adapter resolves with (callMiniMax, callOpenAI,
\* callAnthropic): only OpenAI answers carry a reasoning summary.
Reply(provider, text) ==
  [outputText |-> text,
   model |-> provider,
   usage |-> UsageOf(provider, text),
   reasoning |-> IF provider = "openai" THEN "summary" ELSE "null",
   latency |-> LatencyOf[provider]]

Replies(provider) == {Reply(provider, text) : text \in Outputs}

\* the reports of the texts the providers answer with, computed once
GateTable == [text \in Outputs |-> qualityGate(text)]
Gate(text) == GateTable[text]

\* the qualityThreshold values a router is created with
Thresholds == {500, QUALITY_THRESHOLD}

\* The variants the experiment is defined with.  weight 0: no weight given;
\* qualityThreshold 0: none given.
RawVariants ==
  <<[id |-> "openai-stored", provider |-> "openai", weight |-> 5,
     systemPrompt |-> FALSE, outputSchema |-> TRUE, qualityThreshold |-> 0],
    [id |-> "opus-direct", provider |-> "anthropic", weight |-> 3,
     systemPrompt |-> TRUE, outputSchema |-> FALSE, qualityThreshold |-> 0],
    [id |-> "minimax-cheap", provider |-> "minimax", weight |-> 2,
     systemPrompt |-> FALSE, outputSchema |-> FALSE, qualityThreshold |-> 500]>>

experiment == defineExperiment("saas-eval", RawVariants)

\* no call of prompt-schema.mjs has returned to the standalone user
NoAnswer == [fn |-> "none"]

-----------------------------------------------------------------------------
(* router.mjs                                                              *)

VARIABLES
  config,    \* the RouterConfig createRouter was called with
  metrics,   \* experiment.metrics
  inv,       \* per invocation: where it is suspended and its local variables
  log,       \* per invocation: the provider calls it has made, in order
  result     \* per invocation: what the returned promise settled with

vars ==
  <<config, metrics, inv, log, result, llmOutputText, reports, elsewhere,
    callerVariants, abTest, answer, calls, suites, jobs>>

ZeroTiming == [primary |-> 0, gate |-> 0, escalation |-> 0, total |-> 0]
NoUsage == [p \in {} |-> 0]
NoGate == [score |-> 0, issues |-> <<>>, responses |-> <<>>, passesGate |-> FALSE,
           threshold |-> QUALITY_THRESHOLD]
NoReply == [outputText |-> <<>>, model |-> "none",
            usage |-> [input_tokens |-> 0, output_tokens |-> 0, total_tokens |-> 0],
            reasoning |-> "null", latency |-> 0]

NoVariant ==
  [id |-> "none", provider |-> "none", weight |-> Weight(0, 1),
   systemPrompt |-> FALSE, outputSchema |-> FALSE, qualityThreshold |-> 0]

\* An invocation that has not been made.  pc is the await it is suspended at;
\* elapsed is Date.now() - totalStart, which advances by the latency of each
\* call that resolves (the gate and the scorer take no measurable time).
IdleInv ==
  [pc |-> "idle", fn |-> "none", variant |-> NoVariant, timing |-> ZeroTiming,
   usageLog |-> NoUsage, primary |-> NoReply, gate |-> NoGate, schemaValid |-> TRUE,
   elapsed |-> 0]

Pending == [status |-> "pending"]
Returned(value) == [status |-> "returned", value |-> value]
Rejected(message) == [status |-> "rejected", error |-> message]

\* createRouter(config): openaiKey and promptId are always given
Init ==
  /\ config \in [minimaxKey : BOOLEAN, anthropicKey : BOOLEAN,
                 qualityThreshold : Thresholds, allowEscalation : BOOLEAN]
  /\ metrics = [id \in {} |-> <<>>]
  /\ inv = [i \in Invocations |-> IdleInv]
  /\ log = [i \in Invocations |-> <<>>]
  /\ result = [i \in Invocations |-> Pending]
  /\ llmOutputText = <<>>
  /\ reports = <<>>
  /\ elsewhere = <<>>
  /\ callerVariants = RawVariants
  /\ abTest = experiment
  /\ answer = NoAnswer
  /\ calls = 0
  /\ suites = <<>>
  /\ jobs = <<>>

-----------------------------------------------------------------------------
(* The record of provider calls                                            *)

\* A variant of Called that fires the next tier's call together with this
\* one instead of waiting for the gate.
CalledSpeculatively(lg, provider) ==
  Append(Append(lg, [provider |-> provider, outcome |-> "pending", score |-> 0,
                     passes |-> FALSE,
                     usage |-> [input_tokens |-> 0, output_tokens |-> 0,
                                total_tokens |-> 0]]),
         [provider |-> "anthropic", outcome |-> "pending", score |-> 0,
          passes |-> FALSE,
          usage |-> [input_tokens |-> 0, output_tokens |-> 0, total_tokens |-> 0]])

\* a provider call has been made and has not settled
Called(lg, provider) ==
  Append(lg, [provider |-> provider, outcome |-> "pending", score |-> 0,
              passes |-> FALSE, usage |-> NoReply.usage])

\* the pending call resolved with reply, whose report is gate
Resolved(lg, reply, gate) ==
  [lg EXCEPT ![Len(lg)] =
     [@ EXCEPT !.outcome = "ok", !.score = gate.score, !.passes = gate.passesGate,
               !.usage = reply.usage]]

\* the pending call rejected
Raised(lg) == [lg EXCEPT ![Len(lg)] = [@ EXCEPT !.outcome = "raised"]]

\* the pending call will never settle
Stalled(lg) == [lg EXCEPT ![Len(lg)] = [@ EXCEPT !.outcome = "stalled"]]

\* the adapter of provider threw before any request: no key is configured
Unconfigured(lg, provider) ==
  Append(lg, [provider |-> provider, outcome |-> "unconfigured", score |-> 0,
              passes |-> FALSE, usage |-> NoReply.usage])

\* Object.keys(usageLog).length
Keys(usageLog) == Cardinality(DOMAIN usageLog)
\* usageLog[provider] = usage
SetUsage(usageLog, provider, usage) ==
  [p \in DOMAIN usageLog \cup {provider} |-> IF p = provider THEN usage ELSE usageLog[p]]

\* a || b on numbers
OrElse(a, b) == IF a # 0 THEN a ELSE b

-----------------------------------------------------------------------------
(* What a continuation does: suspend at the next call, return, or throw    *)

\* st is the invocation's state at that point, lg its calls so far
\* the call to provider is made and the invocation suspends at pc
Await(i, st, lg, pc, provider) ==
  /\ inv' = [inv EXCEPT ![i] = [st EXCEPT !.pc = pc]]
  /\ log' = [log EXCEPT ![i] = Called(lg, provider)]
  /\ UNCHANGED <<config, result, metrics, gateVars, labVars, benchVars>>

Return(i, st, lg, value) ==
  /\ inv' = [inv EXCEPT ![i] = [st EXCEPT !.pc = "returned"]]
  /\ log' = [log EXCEPT ![i] = lg]
  /\ result' = [result EXCEPT ![i] = Returned(value)]
  /\ UNCHANGED <<config, gateVars, labVars, benchVars>>

Throw(i, st, lg, message) ==
  /\ inv' = [inv EXCEPT ![i] = [st EXCEPT !.pc = "rejected"]]
  /\ log' = [log EXCEPT ![i] = lg]
  /\ result' = [result EXCEPT ![i] = Rejected(message)]
  /\ UNCHANGED <<config, metrics, gateVars, labVars, benchVars>>

\* A variant of MissingAnthropicKey for an adapter that does not look at its
\* key before it sends the request.
KeyNeverMissing == FALSE

\* if (!anthropicKey) throw ...
MissingAnthropicKey == ~config.anthropicKey

\* callAnthropic(idea): throws before any request when no key is configured
CallAnthropic(i, st, lg, pc) ==
  IF MissingAnthropicKey
    THEN Throw(i, st, Unconfigured(lg, "anthropic"),
               "Anthropic API key required for escalation but not configured")
    ELSE Await(i, st, lg, pc, "anthropic")

\* timing.total = Date.now() - totalStart
Done(st) == [st EXCEPT !.timing.total = st.elapsed]

-----------------------------------------------------------------------------
(* evaluate                                                                *)

\* the tier evaluate calls first
FirstTier == IF config.minimaxKey THEN "minimax" ELSE "openai"

\* A variant of Stops with the gate's verdict inverted.
StopsWhenFailing(gate) == ~gate.passesGate \/ ~config.allowEscalation

\* A variant of Stops that forgets the gate's verdict.
StopsOnlyWhenEscalationOff(gate) == ~config.allowEscalation

\* gate.passesGate || !allowEscalation: the tier's answer is returned
Stops(gate) == gate.passesGate \/ ~config.allowEscalation

MiniMaxResult(mm, gate, timing) ==
  [provider |-> "minimax", model |-> mm.model, quality |-> gate.score,
   escalated |-> FALSE, escalationReason |-> "undefined",
   responses |-> gate.responses, issues |-> gate.issues,
   usage |-> mm.usage, timing |-> timing, reasoning |-> "null"]

\* A variant of OpenAIUsage that reports the OpenAI call alone.
OpenAIUsageOwn(usageLog, primary) == primary.usage

\* usage of the OpenAI result: the whole log when MiniMax is in it too
OpenAIUsage(usageLog, primary) ==
  IF Keys(usageLog) > 1 THEN usageLog ELSE primary.usage

\* A variant of OpenAIEscalated for the two-tier chain, where OpenAI is
\* always the first tier.
OpenAINeverEscalated == FALSE

\* escalated of the OpenAI result: !!minimaxKey
OpenAIEscalated == config.minimaxKey

OpenAIResult(primary, gate, usageLog, timing) ==
  [provider |-> "openai", model |-> primary.model, quality |-> gate.score,
   escalated |-> OpenAIEscalated,
   escalationReason |-> IF config.minimaxKey THEN <<"MiniMax failed quality gate">>
                        ELSE "undefined",
   responses |-> gate.responses, issues |-> gate.issues,
   usage |-> OpenAIUsage(usageLog, primary), timing |-> timing,
   reasoning |-> primary.reasoning]

AnthropicResult(fallback, gate, fallbackGate, usageLog, timing) ==
  [provider |-> "anthropic", model |-> fallback.model, quality |-> fallbackGate.score,
   escalated |-> TRUE, escalationReason |-> gate.issues,
   responses |-> fallbackGate.responses, issues |-> fallbackGate.issues,
   usage |-> usageLog, timing |-> timing, reasoning |-> "null"]

\* evaluate(idea) up to its first await
Evaluate(i) ==
  /\ inv[i].pc = "idle"
  /\ IF FirstTier = "minimax"
       THEN Await(i, [IdleInv EXCEPT !.fn = "evaluate"], <<>>, "callMiniMax", "minimax")
       ELSE Await(i, [IdleInv EXCEPT !.fn = "evaluate"], <<>>, "callOpenAI", "openai")

\* tier 1 from the gate verdict on: return, or go on to tier 2
MiniMaxDecide(i, mm, gate, st, lg) ==
  IF Stops(gate)
    THEN /\ Return(i, Done(st), lg, MiniMaxResult(mm, gate, Done(st).timing))
         /\ UNCHANGED metrics
    ELSE Await(i, st, lg, "callOpenAI", "openai")

\* tier 1 after the call: timing, usage and the gate
AfterMiniMax(i, mm, gate) ==
  MiniMaxDecide(i, mm, gate,
                [inv[i] EXCEPT !.timing.primary = mm.latency,
                               !.usageLog = SetUsage(@, "minimax", mm.usage),
                               !.timing.gate = 0,
                               !.elapsed = @ + mm.latency],
                Resolved(log[i], mm, gate))

\* callMiniMax resolved
MiniMaxReturns(i) ==
  /\ inv[i].pc = "callMiniMax"
  /\ \E mm \in Replies("minimax") : AfterMiniMax(i, mm, Gate(mm.outputText))

\* callMiniMax rejected: the catch block, then tier 2
MiniMaxRaises(i) ==
  /\ inv[i].pc = "callMiniMax"
  /\ Await(i, inv[i], Raised(log[i]), "callOpenAI", "openai")

\* tier 2 from the gate verdict on: return, or go on to tier 3
OpenAIDecide(i, primary, gate, st, lg) ==
  IF Stops(gate)
    THEN /\ Return(i, Done(st), lg,
                   OpenAIResult(primary, gate, st.usageLog, Done(st).timing))
         /\ UNCHANGED metrics
    ELSE CallAnthropic(i, st, lg, "callAnthropic")

\* tier 2 after the call: timing, usage and the gate
AfterOpenAI(i, primary, gate) ==
  OpenAIDecide(i, primary, gate,
               [inv[i] EXCEPT !.timing.primary = OrElse(@, primary.latency),
                              !.timing.escalation = primary.latency,
                              !.usageLog = SetUsage(@, "openai", primary.usage),
                              !.timing.gate = 0,
                              !.gate = gate,
                              !.elapsed = @ + primary.latency],
               Resolved(log[i], primary, gate))

\* callOpenAI resolved
OpenAIReturns(i) ==
  /\ inv[i].pc = "callOpenAI"
  /\ \E primary \in Replies("openai") : AfterOpenAI(i, primary, Gate(primary.outputText))

\* callOpenAI rejected: nothing catches it
OpenAIRaises(i) ==
  /\ inv[i].pc = "callOpenAI"
  /\ Throw(i, inv[i], Raised(log[i]), "OpenAI API error")

\* A variant of AnthropicDecide that holds the last tier to the gate too.
AnthropicDecideGated(i, fallback, fallbackGate, st, lg) ==
  IF fallbackGate.passesGate
    THEN /\ Return(i, Done(st), lg,
                   AnthropicResult(fallback, st.gate, fallbackGate, st.usageLog,
                                   Done(st).timing))
         /\ UNCHANGED metrics
    ELSE Throw(i, st, lg, "All tiers failed the quality gate")

\* tier 3: the answer is returned whatever its gate says
AnthropicDecide(i, fallback, fallbackGate, st, lg) ==
  /\ Return(i, Done(st), lg,
            AnthropicResult(fallback, st.gate, fallbackGate, st.usageLog, Done(st).timing))
  /\ UNCHANGED metrics

\* tier 3 after the call: timing, usage and the gate
AfterAnthropic(i, fallback, fallbackGate) ==
  AnthropicDecide(i, fallback, fallbackGate,
                  [inv[i] EXCEPT !.timing.escalation = @ + fallback.latency,
                                 !.usageLog = SetUsage(@, "anthropic", fallback.usage),
                                 !.elapsed = @ + fallback.latency],
                  Resolved(log[i], fallback, fallbackGate))

\* callAnthropic resolved
AnthropicReturns(i) ==
  /\ inv[i].pc = "callAnthropic"
  /\ \E fallback \in Replies("anthropic") :
       AfterAnthropic(i, fallback, Gate(fallback.outputText))

\* callAnthropic rejected: nothing catches it
AnthropicRaises(i) ==
  /\ inv[i].pc = "callAnthropic"
  /\ Throw(i, inv[i], Raised(log[i]), "Anthropic API error")

-----------------------------------------------------------------------------
(* evaluateWithExperiment                                                  *)

\* A variant of ThresholdOf that knows the router's threshold only.
ThresholdOfRouter(variant) == config.qualityThreshold

\* variant.qualityThreshold || qualityThreshold
ThresholdOf(variant) == OrElse(variant.qualityThreshold, config.qualityThreshold)

\* A variant of Keeps that also escalates an answer the schema rejected.
KeepsWhenSchemaValid(gate, threshold) ==
  \/ /\ gate.score >= threshold
     /\ \A k \in 1..Len(gate.issues) : gate.issues[k].category # "schema"
  \/ ~config.allowEscalation

\* gate.score >= threshold || !allowEscalation: the variant's answer is returned
Keeps(gate, threshold) == gate.score >= threshold \/ ~config.allowEscalation

VariantResult(variant, primary, gate, schemaValid, timing) ==
  [provider |-> variant.provider, model |-> primary.model, quality |-> gate.score,
   escalated |-> FALSE, escalationReason |-> "undefined",
   responses |-> gate.responses, issues |-> gate.issues,
   usage |-> primary.usage, timing |-> timing, reasoning |-> primary.reasoning,
   variantId |-> variant.id, schemaValid |-> schemaValid]

FallbackResult(variant, primary, gate, fallback, fallbackGate, schemaValid, timing) ==
  [provider |-> "anthropic", model |-> fallback.model, quality |-> fallbackGate.score,
   escalated |-> TRUE, escalationReason |-> gate.issues,
   responses |-> fallbackGate.responses, issues |-> fallbackGate.issues,
   usage |-> [primary |-> primary.usage, fallback |-> fallback.usage],
   timing |-> timing, reasoning |-> "null",
   variantId |-> variant.id, schemaValid |-> schemaValid]

\* result.usage?.total_tokens || (primary total || 0) + (fallback total || 0)
TokenCount(usage) ==
  IF "total_tokens" \in DOMAIN usage THEN usage.total_tokens
  ELSE usage.primary.total_tokens + usage.fallback.total_tokens

\* the sample recordMetric is given
Sample(value) ==
  [qualityScore |-> value.quality, escalated |-> value.escalated,
   schemaValid |-> value.schemaValid, latencyMs |-> value.timing.total,
   tokenCount |-> TokenCount(value.usage)]

\* step 5 and the return
Finish(i, st, lg, value) ==
  /\ Return(i, st, lg, value)
  /\ metrics' = recordMetric(metrics, value.variantId, Sample(value))

\* step 4: return the variant's answer, or call the fallback
Decide(i, st, lg) ==
  IF Keeps(st.gate, ThresholdOf(st.variant))
    THEN Finish(i, Done(st), lg,
                VariantResult(st.variant, st.primary, st.gate, st.schemaValid,
                              Done(st).timing))
    ELSE CallAnthropic(i, st, lg, "fallback")

\* step 3: validateOutput is awaited when the variant has a schema and the
\* gate found units
Validate(i, st, lg) ==
  IF st.variant.outputSchema /\ Len(st.gate.responses) > 0
    THEN /\ inv' = [inv EXCEPT ![i] = [st EXCEPT !.pc = "validateOutput"]]
         /\ log' = [log EXCEPT ![i] = lg]
         /\ UNCHANGED <<config, metrics, result, gateVars, labVars, benchVars>>
    ELSE Decide(i, st, lg)

\* steps 1 (end) and 2: primary is set, then timing and the gate
AfterPrimary(i, primary, gate) ==
  Validate(i,
           [inv[i] EXCEPT !.primary = primary,
                          !.timing.primary = primary.latency,
                          !.timing.gate = 0,
                          !.gate = gate,
                          !.elapsed = @ + primary.latency],
           Resolved(log[i], primary, gate))

\* the first call of the selected variant
CallVariant(i, st) ==
  IF st.variant.provider = "openai" THEN Await(i, st, <<>>, "primary", "openai")
  ELSE IF st.variant.provider = "anthropic" THEN CallAnthropic(i, st, <<>>, "primary")
  ELSE IF st.variant.provider = "minimax"
    THEN IF config.minimaxKey THEN Await(i, st, <<>>, "primary", "minimax")
         ELSE Throw(i, st, Unconfigured(<<>>, "minimax"),
                    "MiniMax API key required but not configured")
  ELSE Throw(i, st, <<>>, "Unknown provider")

\* evaluateWithExperiment(idea, experiment) up to its first await
EvaluateWithExperiment(i) ==
  /\ inv[i].pc = "idle"
  /\ \E r \in 0..(RandSteps - 1) :
       CallVariant(i, [IdleInv EXCEPT
                         !.fn = "evaluateWithExperiment",
                         !.variant = selectVariant(experiment, [num |-> r, den |-> RandSteps])])

\* the variant's call resolved; an Anthropic variant with a system prompt of
\* its own is called again
PrimaryReturns(i) ==
  /\ inv[i].pc = "primary"
  /\ \E primary \in Replies(inv[i].variant.provider) :
       IF inv[i].variant.provider = "anthropic" /\ inv[i].variant.systemPrompt
         THEN Await(i, [inv[i] EXCEPT !.primary = primary,
                                     !.elapsed = @ + primary.latency],
                    Resolved(log[i], primary, Gate(primary.outputText)),
                    "recall", "anthropic")
         ELSE AfterPrimary(i, primary, Gate(primary.outputText))

\* the second call of the Anthropic variant resolved
RecallReturns(i) ==
  /\ inv[i].pc = "recall"
  /\ \E primary \in Replies("anthropic") :
       AfterPrimary(i, primary, Gate(primary.outputText))

\* the variant's call (first or second) rejected: nothing catches it
PrimaryRaises(i) ==
  /\ inv[i].pc \in {"primary", "recall"}
  /\ Throw(i, inv[i], Raised(log[i]), "provider API error")

\* gate.issues.push(...) of the schema's issues, as warnings
WithSchemaIssues(gate, validation) ==
  [gate EXCEPT !.issues =
     @ \o [k \in 1..Len(validation.issues) |->
             [category |-> "schema", severity |-> "warning",
              message |-> validation.issues[k].message]]]

\* step 3 after the await
Validated(i, validation) ==
  Decide(i, [inv[i] EXCEPT !.schemaValid = validation.valid,
                           !.gate = IF validation.valid THEN @
                                    ELSE WithSchemaIssues(@, validation)],
         log[i])

\* validateOutput resolved
SchemaValidated(i) ==
  /\ inv[i].pc = "validateOutput"
  /\ Validated(i, validateOutput(inv[i].variant, inv[i].gate.responses))

\* the fallback's answer is returned whatever its gate says
FallbackDecide(i, fallback, fallbackGate, st, lg) ==
  Finish(i, Done(st), lg,
         FallbackResult(st.variant, st.primary, st.gate, fallback, fallbackGate,
                        st.schemaValid, Done(st).timing))

AfterFallback(i, fallback, fallbackGate) ==
  FallbackDecide(i, fallback, fallbackGate,
                 [inv[i] EXCEPT !.timing.escalation = fallback.latency,
                                !.elapsed = @ + fallback.latency],
                 Resolved(log[i], fallback, fallbackGate))

\* the fallback call resolved
FallbackReturns(i) ==
  /\ inv[i].pc = "fallback"
  /\ \E fallback \in Replies("anthropic") :
       AfterFallback(i, fallback, Gate(fallback.outputText))

\* the fallback call rejected
FallbackRaises(i) ==
  /\ inv[i].pc = "fallback"
  /\ Throw(i, inv[i], Raised(log[i]), "Anthropic API error")

-----------------------------------------------------------------------------
(* A provider that never answers                                           *)

\* where an invocation waits for a provider
CallSites == {"callMiniMax", "callOpenAI", "callAnthropic", "primary", "recall", "fallback"}

\* the request in flight is never answered: the adapters await the response
\* with no timeout and no abort signal, so the invocation stays suspended
Stalls(i) ==
  /\ inv[i].pc \in CallSites
  /\ inv' = [inv EXCEPT ![i].pc = "stalled"]
  /\ log' = [log EXCEPT ![i] = Stalled(log[i])]
  /\ UNCHANGED <<config, result, metrics, gateVars, labVars, benchVars>>

-----------------------------------------------------------------------------
Next ==
  \E i \in Invocations :
    \/ Evaluate(i)
    \/ MiniMaxReturns(i)
    \/ MiniMaxRaises(i)
    \/ OpenAIReturns(i)
    \/ OpenAIRaises(i)
    \/ AnthropicReturns(i)
    \/ AnthropicRaises(i)
    \/ EvaluateWithExperiment(i)
    \/ PrimaryReturns(i)
    \/ RecallReturns(i)
    \/ PrimaryRaises(i)
    \/ SchemaValidated(i)
    \/ FallbackReturns(i)
    \/ FallbackRaises(i)
    \/ Stalls(i)

Spec == Init /\ [][Next]_vars

\* a provider's answer or error reaches invocation i of evaluate and its
\* continuation runs
Settles(i) ==
  \/ MiniMaxReturns(i)
  \/ MiniMaxRaises(i)
  \/ OpenAIReturns(i)
  \/ OpenAIRaises(i)
  \/ AnthropicReturns(i)
  \/ AnthropicRaises(i)

\* the router used through evaluate alone
EvaluateNext == \E i \in Invocations : Evaluate(i) \/ Settles(i) \/ Stalls(i)

\* with the event loop's guarantee: a call is made when asked for, and the
\* continuation of a call that can settle is run
LiveSpec ==
  Init /\ [][EvaluateNext]_vars
    /\ \A i \in Invocations : WF_vars(Evaluate(i)) /\ WF_vars(Settles(i))

-----------------------------------------------------------------------------
(* The gate used standalone: qualityGate and parseResponses on any text    *)

\* the most blocks a text is put together from
MaxBlocks == 4
\* the most calls of qualityGate on the text
MaxCalls == 2
\* the most calls on another text in between
MaxElsewhere == 1

\* n numbered rubric lines, each ending its line
Rubric(n) == [k \in 1..(2 * n) |-> IF k % 2 = 1 THEN Numbered ELSE WS]
\* n rubric lines without numbers ("Zero Human Labor: 9/10")
Unnumbered(n) == [k \in 1..(2 * n) |-> IF k % 2 = 1 THEN Labelled ELSE WS]

\* a block as the prompt asks for it, with the given text and probability
Block(body, prob) ==
  <<RO, WS, TO, WS>> \o body \o <<WS, TC, WS, PO>> \o prob \o <<PC, WS, RC>>

\* a block nothing is deducted from
PerfectBlock == GoodUnit(300)
\* two injection artifacts, three of the ten rubric lines, total and pivot
InjectedBlock ==
  Block(<<SystemLine, WS, InjectLine, WS>> \o Rubric(3) \o <<TotalLine, WS, PivotLine>>,
        <<Num(80)>>)
\* every check fires: probability 1.5, an artifact, one rubric line, short
HopelessBlock == Block(<<InjectLine, WS, Numbered>>, <<Num(1500)>>)
\* nothing but an artifact, probability 1.5: every check fires but the
\* numbered rubric one
OverriddenBlock == Block(<<InjectLine>>, <<Num(1500)>>)
\* unnumbered rubric lines and a probability that is no number ("abc")
UnscoredBlock ==
  Block(<<Prose(40), WS>> \o Unnumbered(10) \o <<TotalLine, WS, PivotLine>>, <<Prose(3)>>)
\* four numbered rubric lines and six without numbers, total and pivot
MixedBlock ==
  Block(<<Prose(40), WS>> \o Rubric(4) \o Unnumbered(6) \o <<TotalLine, WS, PivotLine>>,
        <<Num(100)>>)
\* "<response><text>orphan": a block that is never closed
OrphanBlock == <<RO, TO, Prose(6)>>
\* "no xml here"
Garbage == <<Prose(11)>>

Blocks == {PerfectBlock, InjectedBlock, HopelessBlock, OverriddenBlock, UnscoredBlock,
           MixedBlock, WeakText, OrphanBlock, Garbage}

RECURSIVE Flatten(_)
Flatten(bs) == IF bs = <<>> THEN <<>> ELSE bs[1] \o Flatten(Tail(bs))

\* the texts of at most MaxBlocks blocks, the empty string among them
Texts == {Flatten(bs) : bs \in UNION {[1..n -> Blocks] : n \in 0..MaxBlocks}}

\* the text the interleaved calls are made on
OtherText == WeakText

\* The router is not used: its variables stay as createRouter leaves them.
GateInit ==
  /\ llmOutputText \in Texts
  /\ reports = <<>>
  /\ elsewhere = <<>>
  /\ config = [minimaxKey |-> FALSE, anthropicKey |-> FALSE,
               qualityThreshold |-> QUALITY_THRESHOLD, allowEscalation |-> TRUE]
  /\ metrics = [id \in {} |-> <<>>]
  /\ inv = [i \in Invocations |-> IdleInv]
  /\ log = [i \in Invocations |-> <<>>]
  /\ result = [i \in Invocations |-> Pending]
  /\ callerVariants = RawVariants
  /\ abTest = experiment
  /\ answer = NoAnswer
  /\ calls = 0
  /\ suites = <<>>
  /\ jobs = <<>>

\* qualityGate(llmOutputText)
QualityGate ==
  /\ Len(reports) < MaxCalls
  /\ reports' = Append(reports, qualityGate(llmOutputText))
  /\ UNCHANGED <<llmOutputText, elsewhere, config, metrics, inv, log, result, labVars, benchVars>>

\* the record of a call on another text: after is the number of calls on
\* llmOutputText made before it
Interleaved(fn, value) ==
  Append(elsewhere, [fn |-> fn, after |-> Len(reports), value |-> value])

\* qualityGate(otherText)
GateElsewhere ==
  /\ Len(elsewhere) < MaxElsewhere
  /\ elsewhere' = Interleaved("qualityGate", qualityGate(OtherText))
  /\ UNCHANGED <<llmOutputText, reports, config, metrics, inv, log, result, labVars, benchVars>>

\* parseResponses(otherText)
ParseElsewhere ==
  /\ Len(elsewhere) < MaxElsewhere
  /\ elsewhere' = Interleaved("parseResponses", [responses |-> parseResponses(OtherText)])
  /\ UNCHANGED <<llmOutputText, reports, config, metrics, inv, log, result, labVars, benchVars>>

GateNext == QualityGate \/ GateElsewhere \/ ParseElsewhere

GateSpec == GateInit /\ [][GateNext]_vars

-----------------------------------------------------------------------------
(* prompt-schema.mjs: the statistics of an experiment and its winner       *)
(*                                                                         *)
(* Means and rates are exact quotients num / den with den > 0, compared by *)
(* cross-multiplication.  Variant ids are unique and are not written like  *)
(* array indices, so the keys of the stats object keep definition order.   *)

RECURSIVE GCD(_, _)
GCD(a, b) == IF b = 0 THEN a ELSE GCD(b, a % b)
Abs(a) == IF a < 0 THEN 0 - a ELSE a

\* the quotient num / den in lowest terms
Ratio(num, den) ==
  [num |-> num \div GCD(Abs(num), den), den |-> den \div GCD(Abs(num), den)]
\* a > b
Greater(a, b) == a.num * b.den > b.num * a.den

RECURSIVE Total(_, _, _)
\* arr.reduce((a, b) => a + b, 0) over the places lo..hi
Total(arr, lo, hi) ==
  IF lo > hi THEN 0
  ELSE IF lo = hi THEN arr[lo]
  ELSE Total(arr, lo, (lo + hi) \div 2) + Total(arr, (lo + hi) \div 2 + 1, hi)

avg(arr) == IF Len(arr) # 0 THEN Ratio(Total(arr, 1, Len(arr)), Len(arr)) ELSE Ratio(0, 1)

\* x put into the ascending sequence sorted after its first k elements
Insert(sorted, x, k) == SubSeq(sorted, 1, k) \o <<x>> \o SubSeq(sorted, k + 1, Len(sorted))

RECURSIVE SortAscending(_)
RECURSIVE SortStep(_, _)
\* [...arr].sort((a, b) => a - b)
SortAscending(arr) ==
  IF arr = <<>> THEN <<>>
  ELSE SortStep(SortAscending(SubSeq(arr, 1, Len(arr) - 1)), arr[Len(arr)])
SortStep(sorted, x) ==
  Insert(sorted, x, Cardinality({i \in 1..Len(sorted) : sorted[i] <= x}))

\* Math.ceil(n * p) for p = p.num / p.den
Ceil(n, p) == (n * p.num + p.den - 1) \div p.den

\* A variant of percentile that takes the element at Math.floor(n * p).
percentileFloor(arr, p) ==
  SortAscending(arr)[Min2(Len(arr), (Len(arr) * p.num) \div p.den + 1)]

\* sorted[Math.max(0, idx)] with idx = Math.ceil(sorted.length * p) - 1
\* (sequences are counted from 1)
percentile(arr, p) == SortAscending(arr)[Max2(0, Ceil(Len(arr), p) - 1) + 1]

\* the percentiles getExperimentStats asks for: 0.5 and 0.95
Half == Ratio(1, 2)
NineteenTwentieths == Ratio(19, 20)

\* metrics.map(m => m[field])
Column(samples, field) == [k \in 1..Len(samples) |-> samples[k][field]]
\* metrics.filter(m => m[field]).length
Count(samples, field) == Cardinality({k \in 1..Len(samples) : samples[k][field]})
Max(S) == CHOOSE x \in S : \A y \in S : x >= y

\* the stats of one variant with samples
Aggregate(samples, weight, qualityScores, latencies, tokens) ==
  [samples |-> Len(samples),
   weight |-> weight,
   quality |-> [mean |-> avg(qualityScores),
                min |-> Min({qualityScores[k] : k \in 1..Len(qualityScores)}),
                max |-> Max({qualityScores[k] : k \in 1..Len(qualityScores)}),
                p50 |-> percentile(qualityScores, Half),
                p95 |-> percentile(qualityScores, NineteenTwentieths)],
   escalationRate |-> Ratio(Count(samples, "escalated"), Len(samples)),
   schemaPassRate |-> Ratio(Count(samples, "schemaValid"), Len(samples)),
   latency |-> [mean |-> avg(latencies),
                p50 |-> percentile(latencies, Half),
                p95 |-> percentile(latencies, NineteenTwentieths)],
   tokens |-> [mean |-> avg(tokens), total |-> Total(tokens, 1, Len(tokens))]]

\* stats[variant.id]
VariantStats(variant, samples) ==
  IF Len(samples) = 0 THEN [samples |-> 0, weight |-> variant.weight]
  ELSE Aggregate(samples, variant.weight, Column(samples, "qualityScore"),
                 Column(samples, "latencyMs"), Column(samples, "tokenCount"))

\* experiment.metrics.get(id) || []
MetricsOf(map, id) == IF id \in DOMAIN map THEN map[id] ELSE <<>>

RECURSIVE TotalSamples(_, _)
\* [...experiment.metrics.values()].reduce((sum, m) => sum + m.length, 0)
TotalSamples(map, ids) ==
  IF ids = {} THEN 0
  ELSE Len(map[CHOOSE id \in ids : TRUE])
       + TotalSamples(map, ids \ {CHOOSE id \in ids : TRUE})

\* variants holds the entries of the stats object, in the order of its keys
getExperimentStats(exp, map) ==
  [experiment |-> exp.name,
   totalSamples |-> TotalSamples(map, DOMAIN map),
   variants |-> [k \in 1..Len(exp.variants) |->
                   [id |-> exp.variants[k].id,
                    s |-> VariantStats(exp.variants[k],
                                       MetricsOf(map, exp.variants[k].id))]]]

\* const { minSamples = 5, optimizeFor = "quality" } = options
Option(options, name, default) ==
  IF name \in DOMAIN options THEN options[name] ELSE default

\* s.tokens.mean || 1, s.latency.mean || 1
MeanOr1(mean) == IF mean.num = 0 THEN Ratio(1, 1) ELSE mean

\* a / b
Quotient(a, b) == Ratio(a.num * b.den, a.den * b.num)

\* the switch on optimizeFor
Score(s, optimizeFor) ==
  IF optimizeFor = "quality"
    THEN Ratio(s.quality.mean.num * (2 * s.escalationRate.den - s.escalationRate.num),
               s.quality.mean.den * 2 * s.escalationRate.den)
  ELSE IF optimizeFor = "cost" THEN Quotient(s.quality.mean, MeanOr1(s.tokens.mean))
  ELSE IF optimizeFor = "latency"
    THEN Quotient(Ratio(1000 * s.quality.mean.num, s.quality.mean.den),
                  MeanOr1(s.latency.mean))
  ELSE s.quality.mean

\* A variant of Improves with score >= bestScore.
ImprovesOrEquals(score, bestScore) == ~Greater(bestScore, score)

\* score > bestScore
Improves(score, bestScore) == Greater(score, bestScore)

RECURSIVE Best(_, _, _, _)
\* the loop over eligible from place k on; best is the place of bestId so
\* far (0: bestId is null and bestScore is -Infinity)
Best(eligible, optimizeFor, k, best) ==
  IF k > Len(eligible) THEN best
  ELSE Best(eligible, optimizeFor, k + 1,
            IF best = 0 \/ Improves(Score(eligible[k].s, optimizeFor),
                                    Score(eligible[best].s, optimizeFor))
              THEN k ELSE best)

\* A variant of RunnerUp that takes the first of the others as they stand.
RunnerUpUnsorted(others) == others[1]

\* eligible.filter(([id]) => id !== bestId).sort(descending quality mean)[0]:
\* the sort is stable, so the first of those with the highest mean
RunnerUp(others) ==
  others[Min({k \in 1..Len(others) :
                \A j \in 1..Len(others) :
                  ~Greater(others[j].s.quality.mean, others[k].s.quality.mean)})]

\* winnerStats.quality.mean - runnerUp[1].quality.mean
Gap(winnerMean, runnerMean) ==
  Ratio(winnerMean.num * runnerMean.den - runnerMean.num * winnerMean.den,
        winnerMean.den * runnerMean.den)

\* A variant of Confidence that asks for more than thirty and more than ten
\* samples.
ConfidenceAboveThirty(samples, gap) ==
  IF samples > 30 /\ gap.num > 100 * gap.den THEN "high"
  ELSE IF samples > 10 /\ gap.num > 50 * gap.den THEN "medium"
  ELSE "low"

\* scores are in thousandths: 0.1 is 100, 0.05 is 50
Confidence(samples, gap) ==
  IF samples >= 30 /\ gap.num > 100 * gap.den THEN "high"
  ELSE IF samples >= 10 /\ gap.num > 50 * gap.den THEN "medium"
  ELSE "low"

\* winner: null
NullVariant == [id |-> "null"]

\* experiment.variants.find(v => v.id === bestId)
Find(variantSeq, bestId) ==
  variantSeq[Min({k \in 1..Len(variantSeq) : variantSeq[k].id = bestId})]

\* the gap to the runner-up, 0 when there is none
GapTo(best, others) ==
  IF others # <<>> THEN Gap(best.s.quality.mean, RunnerUp(others).s.quality.mean)
  ELSE Ratio(0, 1)

\* the return with a winner; others are the eligible entries but the best
Declare(exp, stats, best, others) ==
  [winner |-> Find(exp.variants, best.id),
   confidence |-> Confidence(best.s.samples, GapTo(best, others)),
   stats |-> stats]

\* eligible.filter(([id]) => id !== bestId)
Others(eligible, bestId) ==
  LET Other(e) == e.id # bestId IN SelectSeq(eligible, Other)

Pick(exp, stats, eligible, best) ==
  Declare(exp, stats, eligible[best], Others(eligible, eligible[best].id))

\* A variant of Eligible that asks for more than minSamples samples.
EligibleAbove(entries, minSamples) ==
  LET Enough(e) == e.s.samples > minSamples IN SelectSeq(entries, Enough)

\* Object.entries(stats.variants).filter(([_, s]) => s.samples >= minSamples)
Eligible(entries, minSamples) ==
  LET Enough(e) == e.s.samples >= minSamples IN SelectSeq(entries, Enough)

PickAmong(exp, stats, eligible, optimizeFor) ==
  IF Len(eligible) < 2
    THEN [winner |-> NullVariant, confidence |-> "insufficient_data", stats |-> stats]
  ELSE Pick(exp, stats, eligible, Best(eligible, optimizeFor, 1, 0))

PickFrom(exp, stats, options) ==
  PickAmong(exp, stats, Eligible(stats.variants, Option(options, "minSamples", 5)),
            Option(options, "optimizeFor", "quality"))

pickWinner(exp, map, options) == PickFrom(exp, getExperimentStats(exp, map), options)

-----------------------------------------------------------------------------
(* A user of prompt-schema.mjs on its own: an experiment is defined, then  *)
(* variants are selected, samples recorded and the statistics read.        *)

\* the calls the user makes, defineExperiment included
MaxOps == 4
\* the samples a variant's list may hold
MaxSamples == 35

\* the samples recorded: qualityScore in thousandths, latency in ms; every
\* answer took time and tokens
GoodSample ==
  [qualityScore |-> 920, escalated |-> FALSE, schemaValid |-> TRUE,
   latencyMs |-> 1200, tokenCount |-> 10000]
FairSample ==
  [qualityScore |-> 700, escalated |-> FALSE, schemaValid |-> TRUE,
   latencyMs |-> 900, tokenCount |-> 5000]
RescuedSample ==
  [qualityScore |-> 900, escalated |-> TRUE, schemaValid |-> FALSE,
   latencyMs |-> 5000, tokenCount |-> 30000]
BadSample ==
  [qualityScore |-> 550, escalated |-> TRUE, schemaValid |-> FALSE,
   latencyMs |-> 4000, tokenCount |-> 25000]
Samples == {GoodSample, BadSample, FairSample, RescuedSample}

\* the lengths of the loops that record one sample again and again
RunLengths == {5, 30}

\* a variant as the caller writes it (weight 0: no weight given)
Variant(id, provider, weight) ==
  [id |-> id, provider |-> provider, weight |-> weight,
   systemPrompt |-> FALSE, outputSchema |-> FALSE, qualityThreshold |-> 0]

\* the arrays experiments are defined with
VariantLists ==
  {<<Variant("a", "openai", 7), Variant("b", "anthropic", 3)>>,
   <<Variant("a", "openai", 0), Variant("b", "anthropic", 0)>>,
   <<Variant("heavy", "openai", 999), Variant("light", "anthropic", 1)>>,
   <<Variant("solo", "openai", 2)>>,
   RawVariants}

\* the options pickWinner is called with: none, or one of the two set
NoOptions == [name \in {} |-> 0]
OptionSets ==
  {NoOptions, [optimizeFor |-> "cost"], [optimizeFor |-> "latency"], [minSamples |-> 1]}

NotDefined == [name |-> "none", variants |-> <<>>]
Ids == {abTest.variants[k].id : k \in 1..Len(abTest.variants)}

LabInit ==
  /\ callerVariants \in VariantLists
  /\ abTest = NotDefined
  /\ metrics = [id \in {} |-> <<>>]
  /\ answer = NoAnswer
  /\ calls = 0
  /\ suites = <<>>
  /\ jobs = <<>>
  /\ config = [minimaxKey |-> FALSE, anthropicKey |-> FALSE,
               qualityThreshold |-> QUALITY_THRESHOLD, allowEscalation |-> TRUE]
  /\ inv = [i \in Invocations |-> IdleInv]
  /\ log = [i \in Invocations |-> <<>>]
  /\ result = [i \in Invocations |-> Pending]
  /\ llmOutputText = <<>>
  /\ reports = <<>>
  /\ elsewhere = <<>>

\* what no call of the user touches
Apart == <<config, inv, log, result, gateVars, benchVars>>

\* const exp = defineExperiment("test", callerVariants)
DefineExperiment ==
  /\ abTest = NotDefined
  /\ abTest' = defineExperiment("test", callerVariants)
  /\ answer' = [fn |-> "defineExperiment"]
  /\ calls' = calls + 1
  /\ UNCHANGED <<callerVariants, metrics, Apart>>

\* the user may call again
MayCall == abTest # NotDefined /\ calls < MaxOps

\* selectVariant(exp), Math.random() giving r / RandSteps
SelectVariant ==
  /\ MayCall
  /\ \E r \in 0..(RandSteps - 1) :
       answer' = [fn |-> "selectVariant", rand |-> Ratio(r, RandSteps),
                  value |-> selectVariant(abTest, Ratio(r, RandSteps))]
  /\ calls' = calls + 1
  /\ UNCHANGED <<callerVariants, abTest, metrics, Apart>>

\* an id no variant of the experiments has
Unlisted == "unlisted"

\* recordMetric(exp, id, sample): the id is any string, not looked up among
\* the variants
RecordMetric ==
  /\ MayCall
  /\ \E id \in Ids \cup {Unlisted} : \E sample \in Samples :
       /\ Len(MetricsOf(metrics, id)) < MaxSamples
       /\ metrics' = recordMetric(metrics, id, sample)
  /\ answer' = [fn |-> "recordMetric", times |-> 1, pair |-> FALSE]
  /\ calls' = calls + 1
  /\ UNCHANGED <<callerVariants, abTest, Apart>>

RECURSIVE Repeat(_, _, _, _)
\* for (let i = 0; i < n; i++) recordMetric(exp, id, sample)
Repeat(map, id, sample, n) ==
  IF n = 0 THEN map ELSE Repeat(recordMetric(map, id, sample), id, sample, n - 1)

\* a loop that records the same sample n times
RecordRun ==
  /\ MayCall
  /\ \E id \in Ids : \E sample \in Samples : \E n \in RunLengths :
       /\ Len(MetricsOf(metrics, id)) + n <= MaxSamples
       /\ metrics' = Repeat(metrics, id, sample, n)
       /\ answer' = [fn |-> "recordMetric", times |-> n, pair |-> FALSE]
  /\ calls' = calls + 1
  /\ UNCHANGED <<callerVariants, abTest, Apart>>

RECURSIVE RepeatPair(_, _, _, _, _, _)
\* for (let i = 0; i < n; i++) { recordMetric(exp, a, sampleA);
\* recordMetric(exp, b, sampleB); }
RepeatPair(map, a, sampleA, b, sampleB, n) ==
  IF n = 0 THEN map
  ELSE RepeatPair(recordMetric(recordMetric(map, a, sampleA), b, sampleB),
                  a, sampleA, b, sampleB, n - 1)

\* the lengths of the loops that record for two variants in turn
PairRunLengths == {5, 10}

\* a loop that records a good sample for one variant and a bad one for
\* another n times
RecordPairRun ==
  /\ MayCall
  /\ \E a, b \in Ids : \E n \in PairRunLengths :
       /\ a # b
       /\ Len(MetricsOf(metrics, a)) + n <= MaxSamples
       /\ Len(MetricsOf(metrics, b)) + n <= MaxSamples
       /\ metrics' = RepeatPair(metrics, a, GoodSample, b, BadSample, n)
       /\ answer' = [fn |-> "recordMetric", times |-> n, pair |-> TRUE]
  /\ calls' = calls + 1
  /\ UNCHANGED <<callerVariants, abTest, Apart>>

\* getExperimentStats(exp)
GetExperimentStats ==
  /\ MayCall
  /\ answer' = [fn |-> "getExperimentStats", value |-> getExperimentStats(abTest, metrics)]
  /\ calls' = calls + 1
  /\ UNCHANGED <<callerVariants, abTest, metrics, Apart>>

\* pickWinner(exp, options)
PickWinner ==
  /\ MayCall
  /\ \E options \in OptionSets :
       answer' = [fn |-> "pickWinner", options |-> options,
                  value |-> pickWinner(abTest, metrics, options)]
  /\ calls' = calls + 1
  /\ UNCHANGED <<callerVariants, abTest, metrics, Apart>>

LabNext ==
  \/ DefineExperiment
  \/ SelectVariant
  \/ RecordMetric
  \/ RecordRun
  \/ RecordPairRun
  \/ GetExperimentStats
  \/ PickWinner

LabSpec == LabInit /\ [][LabNext]_vars

-----------------------------------------------------------------------------
(* The bench server: suites are created, runs are started and go through   *)
(* the test cases of their suite one after the other.  Suite and job ids   *)
(* (randomUUID().slice(0, 8)) are taken to be distinct: the place in suites *)
(* and jobs stands for the id.                                             *)

\* the suites and jobs the server is asked for
MaxSuites == 2
MaxJobs == 2

\* the variants and test cases of the bodies POSTed to /v1/bench/suites
SuiteBodies ==
  {[variants |-> <<Variant("a", "openai", 0), Variant("b", "anthropic", 0)>>,
    testCases |-> <<"pets">>],
   [variants |-> <<Variant("a", "openai", 2), Variant("b", "anthropic", 1)>>,
    testCases |-> <<"pets", "taxes">>]}

\* body.variants.map(v => ({ ..., weight: v.weight || 1, ... }))
SuiteVariants(given) == [k \in 1..Len(given) |-> [given[k] EXCEPT !.weight = WeightOr1(given[k])]]

\* POST /v1/bench/suites: a suite without runs
CreateSuite ==
  /\ Len(suites) < MaxSuites
  /\ \E body \in SuiteBodies :
       suites' = Append(suites, [variants |-> SuiteVariants(body.variants),
                                 testCases |-> body.testCases,
                                 runs |-> <<>>])
  /\ UNCHANGED <<jobs, config, metrics, inv, log, result, gateVars, labVars>>

\* what evaluateWithExperiment does for a test case: it returns the result
\* of a variant, having recorded its sample, or it raises
Outcomes(variantSeq) ==
  {[raised |-> FALSE, variant |-> variantSeq[k], sample |-> sample] :
     k \in 1..Len(variantSeq), sample \in {GoodSample, BadSample}}
    \cup {[raised |-> TRUE, message |-> "OpenAI API error"]}

\* the entry of results for a test case that was evaluated; the usage of an
\* escalated result has no total_tokens
EvaluatedResult(tc, variant, sample) ==
  [testCase |-> tc, variantId |-> variant.id,
   provider |-> IF sample.escalated THEN "anthropic" ELSE variant.provider,
   quality |-> sample.qualityScore, escalated |-> sample.escalated,
   schemaValid |-> sample.schemaValid,
   tokens |-> IF sample.escalated THEN 0 ELSE sample.tokenCount,
   latencyMs |-> sample.latencyMs, error |-> "null"]

\* the entry of results written in the catch block
ErrorResult(tc, message) == [testCase |-> tc, error |-> message, quality |-> 0]

\* the entry of results for the outcome of the test case
ResultOf(tc, outcome) ==
  IF outcome.raised THEN ErrorResult(tc, outcome.message)
  ELSE EvaluatedResult(tc, outcome.variant, outcome.sample)

\* experiment.metrics after the evaluation
RecordedBy(map, outcome) ==
  IF outcome.raised THEN map
  ELSE recordMetric(map, outcome.variant.id, outcome.sample)

\* job.result before the job is completed
NoRun == [jobId |-> 0]

\* A variant of Progress that reports the share of the test cases left.
ProgressLeft(done, all) == Ratio(all - done, all)

\* job.progress = results.length / suite.testCases.length
Progress(done, all) == Ratio(done, all)

\* POST /v1/bench/suites/:id/run: the job is created with status "queued";
\* runBenchmark, called without await, runs in the same handler up to its
\* first await: the status is "running", the experiment is defined and the
\* first test case is being evaluated
RunSuite ==
  /\ Len(jobs) < MaxJobs
  /\ \E id \in 1..Len(suites) :
       jobs' = Append(jobs, [suiteId |-> id, status |-> "running",
                             progress |-> Ratio(0, 1),
                             bench |-> defineExperiment("bench", suites[id].variants),
                             samples |-> [v \in {} |-> <<>>],
                             results |-> <<>>,
                             result |-> NoRun])
  /\ UNCHANGED <<suites, config, metrics, inv, log, result, gateVars, labVars>>

\* winner: { variantId: winner.winner?.id || null, confidence }
WinnerOf(picked) ==
  [variantId |-> IF picked.winner = NullVariant THEN "null" ELSE picked.winner.id,
   confidence |-> picked.confidence]

\* the run of job j once its loop is over
RunOf(j, exp, map, results) ==
  [jobId |-> j, results |-> results, stats |-> getExperimentStats(exp, map),
   winner |-> WinnerOf(pickWinner(exp, map, NoOptions))]

\* after the loop: the run is appended to the suite and the job is completed
Complete(j, run, map, progress) ==
  /\ suites' = [suites EXCEPT ![jobs[j].suiteId].runs = Append(@, run)]
  /\ jobs' = [jobs EXCEPT ![j] = [@ EXCEPT !.status = "completed", !.progress = progress,
                                            !.samples = map, !.results = run.results,
                                            !.result = run]]

\* the loop goes on to the next test case
NextTestCase(j, map, results, progress) ==
  /\ jobs' = [jobs EXCEPT ![j] = [@ EXCEPT !.progress = progress, !.samples = map,
                                            !.results = results]]
  /\ UNCHANGED suites

\* the evaluation of the test case has settled, with the entry given
AfterTestCase(j, map, results, all) ==
  IF Len(results) < all
    THEN NextTestCase(j, map, results, Progress(Len(results), all))
  ELSE Complete(j, RunOf(j, jobs[j].bench, map, results), map,
                Progress(Len(results), all))

\* runBenchmark of job j from the await of a test case to the next await or
\* to its end
TestCaseSettles(j) ==
  /\ jobs[j].status = "running"
  /\ \E outcome \in Outcomes(jobs[j].bench.variants) :
       AfterTestCase(j, RecordedBy(jobs[j].samples, outcome),
                     Append(jobs[j].results,
                            ResultOf(suites[jobs[j].suiteId].testCases[Len(jobs[j].results) + 1],
                                     outcome)),
                     Len(suites[jobs[j].suiteId].testCases))
  /\ UNCHANGED <<config, metrics, inv, log, result, gateVars, labVars>>

\* the router and the standalone users stay as they begin
BenchInit ==
  /\ suites = <<>>
  /\ jobs = <<>>
  /\ config = [minimaxKey |-> FALSE, anthropicKey |-> FALSE,
               qualityThreshold |-> QUALITY_THRESHOLD, allowEscalation |-> TRUE]
  /\ metrics = [id \in {} |-> <<>>]
  /\ inv = [i \in Invocations |-> IdleInv]
  /\ log = [i \in Invocations |-> <<>>]
  /\ result = [i \in Invocations |-> Pending]
  /\ llmOutputText = <<>>
  /\ reports = <<>>
  /\ elsewhere = <<>>
  /\ callerVariants = RawVariants
  /\ abTest = experiment
  /\ answer = NoAnswer
  /\ calls = 0

BenchNext ==
  \/ CreateSuite
  \/ RunSuite
  \/ \E j \in 1..Len(jobs) : TestCaseSettles(j)

BenchSpec == BenchInit /\ [][BenchNext]_vars

-----------------------------------------------------------------------------
(* Properties of evaluate and evaluateWithExperiment                       *)

\* the invocations of evaluate
Evaluations == {i \in Invocations : inv[i].fn = "evaluate"}

\* the positions of the calls invocation i has made
Calls(i) == 1..Len(log[i])

\* invocation i has returned a result
HasReturned(i) == result[i].status = "returned"
HasRejected(i) == result[i].status = "rejected"

\* the call at position k of invocation i completed with an answer
Completed(i, k) == log[i][k].outcome = "ok"

\* the tiers of evaluate under the configuration, in the order of the chain
Tiers ==
  IF config.minimaxKey THEN <<"minimax", "openai", "anthropic">>
  ELSE <<"openai", "anthropic">>

\* the result of invocation i is the answer of its call at position k
Serves(i, k) ==
  /\ HasReturned(i)
  /\ result[i].value.provider = log[i][k].provider
  /\ result[i].value.quality = log[i][k].score

\* C1: in evaluate, once the call to Anthropic has completed, the invocation
\* has returned that call's answer with provider "anthropic" and escalated
\* true, whether it passes the gate or not, and that call is the last one the
\* invocation makes.
AnthropicAnswerReturned ==
  \A i \in Evaluations : \A k \in Calls(i) :
    (log[i][k].provider = "anthropic" /\ Completed(i, k)) =>
      /\ k = Len(log[i])
      /\ Serves(i, k)
      /\ result[i].value.provider = "anthropic"
      /\ result[i].value.escalated

\* an evaluate that returned an Anthropic answer which fails the gate
AnthropicFailingAnswerReturned ==
  \E i \in Evaluations :
    /\ HasReturned(i)
    /\ result[i].value.provider = "anthropic"
    /\ log[i][Len(log[i])].outcome = "ok"
    /\ ~log[i][Len(log[i])].passes

\* C2: with an Anthropic key configured and escalation allowed, a call to
\* MiniMax or OpenAI that raised is followed by a call to the next tier, and
\* the invocation has not rejected at it.
NonTerminalErrorEscalates ==
  \A i \in Invocations : \A k \in Calls(i) :
    (/\ config.anthropicKey
     /\ config.allowEscalation
     /\ log[i][k].provider # "anthropic"
     /\ log[i][k].outcome = "raised") =>
      k < Len(log[i])

\* C3: in evaluate the calls follow the chain MiniMax (with a key), OpenAI,
\* Anthropic, one call a tier; a call is followed by another only if it
\* raised or its answer failed the gate; an answer that passes the gate is
\* the last call and is the result returned.
CallsFollowTheChain ==
  \A i \in Evaluations :
    /\ Len(log[i]) <= Len(Tiers)
    /\ \A k \in Calls(i) :
         /\ log[i][k].provider = Tiers[k]
         /\ k < Len(log[i]) =>
              \/ log[i][k].outcome = "raised"
              \/ Completed(i, k) /\ ~log[i][k].passes
         /\ (Completed(i, k) /\ log[i][k].passes) =>
              k = Len(log[i]) /\ Serves(i, k)

\* an evaluate that went through all three tiers, and one that returned the
\* passing answer of its second call
ChainWalked ==
  /\ \E i \in Evaluations : Len(log[i]) = 3 /\ HasReturned(i)
  /\ \E i \in Evaluations :
       Len(log[i]) = 2 /\ Completed(i, 2) /\ log[i][2].passes /\ HasReturned(i)

\* C4: when evaluate comes to the Anthropic tier without a key, or the
\* Anthropic call raises, the invocation rejects; an OpenAI answer that fails
\* the gate with escalation allowed is not returned in its place.
AnthropicFailureRejects ==
  \A i \in Evaluations : \A k \in Calls(i) :
    /\ (/\ log[i][k].provider = "anthropic"
        /\ log[i][k].outcome \in {"raised", "unconfigured"}) =>
         HasRejected(i) /\ k = Len(log[i])
    /\ (/\ log[i][k].provider = "openai"
        /\ Completed(i, k)
        /\ ~log[i][k].passes
        /\ config.allowEscalation
        /\ ~config.anthropicKey) =>
         /\ HasRejected(i)
         /\ Len(log[i]) = k + 1
         /\ log[i][k + 1].provider = "anthropic"
         /\ log[i][k + 1].outcome = "unconfigured"

\* an evaluate rejected for the missing Anthropic key after OpenAI's answer
\* failed the gate
AnthropicFailureSeen ==
  \E i \in Evaluations :
    /\ HasRejected(i)
    /\ Len(log[i]) >= 2
    /\ log[i][Len(log[i])].outcome = "unconfigured"
    /\ log[i][Len(log[i]) - 1].outcome = "ok"

\* C5: with allowEscalation false an evaluate calls one provider, the first
\* configured tier, and no second one.
OneCallWithoutEscalation ==
  \A i \in Evaluations :
    ~config.allowEscalation =>
      /\ Len(log[i]) <= 1
      /\ \A k \in Calls(i) : log[i][k].provider = FirstTier
      /\ HasReturned(i) => result[i].value.provider = FirstTier

\* C6: a result of evaluate has escalated true exactly when the tier that
\* served it is not the first configured tier.
EscalatedIffLaterTier ==
  \A i \in Evaluations :
    HasReturned(i) =>
      (result[i].value.escalated <=> result[i].value.provider # FirstTier)

\* an OpenAI result returned as escalated after the MiniMax call raised
EscalatedAfterMiniMaxError ==
  \E i \in Evaluations :
    /\ HasReturned(i)
    /\ result[i].value.provider = "openai"
    /\ result[i].value.escalated
    /\ log[i][1].outcome = "raised"

\* C7: with escalation allowed, evaluate decides on the configured
\* qualityThreshold: a MiniMax or OpenAI answer scoring at least the threshold
\* is the result returned, and one scoring less is followed by the next tier.
ThresholdDecides ==
  \A i \in Evaluations : \A k \in Calls(i) :
    (/\ config.allowEscalation
     /\ log[i][k].provider # "anthropic"
     /\ Completed(i, k)) =>
      IF log[i][k].score >= config.qualityThreshold
        THEN k = Len(log[i]) /\ Serves(i, k)
        ELSE k < Len(log[i])

\* C8: an invocation has at most one provider call in flight, and it is the
\* last call it made.
OneCallInFlight ==
  \A i \in Invocations : \A k \in Calls(i) :
    log[i][k].outcome = "pending" => k = Len(log[i])

\* two invocations with a call in flight at once, one of them at a later tier
ConcurrentInvocationsInFlight ==
  \E i, j \in Invocations :
    /\ i # j
    /\ Len(log[i]) >= 2
    /\ log[i][Len(log[i])].outcome = "pending"
    /\ Len(log[j]) >= 1
    /\ log[j][Len(log[j])].outcome = "pending"

\* usage u holds the usage of the call e: as the whole value, or under the
\* provider's name
Contains(u, e) ==
  \/ u = e.usage
  \/ e.provider \in DOMAIN u /\ u[e.provider] = e.usage

\* C9: the usage of a result of evaluate holds the usage of every call that
\* completed in the invocation, the discarded ones included.
UsageHoldsEveryCompletedCall ==
  \A i \in Evaluations :
    HasReturned(i) =>
      \A k \in Calls(i) : Completed(i, k) => Contains(result[i].value.usage, log[i][k])

\* an OpenAI result returned after a MiniMax answer was discarded
DiscardedUsageReported ==
  \E i \in Evaluations :
    /\ HasReturned(i)
    /\ result[i].value.provider = "openai"
    /\ Len(log[i]) = 2
    /\ Completed(i, 1)

-----------------------------------------------------------------------------
(* Properties of qualityGate and parseResponses                            *)

\* the calls of qualityGate made on llmOutputText so far
GateCalls == 1..Len(reports)

\* C11: for a text parseResponses extracts no unit from, qualityGate reports
\* score 0, passesGate false and no responses.
NoUnitsScoreZero ==
  \A k \in GateCalls :
    parseResponses(llmOutputText) = <<>> =>
      /\ reports[k].score = 0
      /\ ~reports[k].passesGate
      /\ reports[k].responses = <<>>

\* the gate was run on a text that has markers and yields no unit
UnparsableTextGated ==
  /\ Len(reports) > 0
  /\ CountKind(llmOutputText, {"<response>"}) > 0
  /\ parseResponses(llmOutputText) = <<>>

\* the units of the report of call k
UnitsOf(k) == {reports[k].responses[j] : j \in 1..Len(reports[k].responses)}

\* a score in [0, 1]
InUnitInterval(score) == 0 <= score /\ score <= 1000

\* C12: the score of a report and the score scoreResponse gives each of its
\* units lie in [0, 1], whatever deductions fire together.
ScoresInUnitInterval ==
  \A k \in GateCalls :
    /\ InUnitInterval(reports[k].score)
    /\ \A r \in UnitsOf(k) : InUnitInterval(scoreResponse(r).score)

\* a report with a unit whose deductions add up to more than 1.0
UnitDeductedBelowZero ==
  \E k \in GateCalls : \E r \in UnitsOf(k) : SumDeduct(ResponseChecks(r)) > 1000

\* C13: in a report, passesGate is true exactly when the score field is at
\* least the threshold field.
PassesIffScoreAtThreshold ==
  \A k \in GateCalls :
    reports[k].passesGate <=> reports[k].score >= reports[k].threshold

\* 1 when the condition holds, 0 otherwise
Indicator(condition) == IF condition THEN 1 ELSE 0

\* the document score of C14 for a text and its units, in thousandths
DocumentScore(text, units) ==
  1000
  - 300 * Indicator(CountKind(text, {"<response>"}) # CountKind(text, {"</response>"}))
  - 150 * Indicator(Len(units) < 3)
  - 200 * Indicator(~ProbSum(units).nan /\ ProbSum(units).v > 1000)
  - 100 * Indicator(/\ \E j \in 1..Len(units) : HasScores(units[j].text)
                    /\ \E j \in 1..Len(units) : ~HasScores(units[j].text))

\* the sum of the scores scoreResponse gives the units
UnitScoreSum(units) == SumScores([j \in 1..Len(units) |-> scoreResponse(units[j])])

\* 10 n times clamp01(0.4 * documentScore + 0.6 * mean unit score), thousandths
CompositeTimes10N(text, units) ==
  Max2(0, Min2(10000 * Len(units),
               4 * DocumentScore(text, units) * Len(units) + 6 * UnitScoreSum(units)))

\* C14: when units are parsed, the reported score is the composite
\* clamp01(0.4 * documentScore + 0.6 * mean unit score) to three decimals and
\* passesGate compares that composite with 0.70; three or more units without
\* any deduction score 1.0 and pass.
CompositeIsWeightedMean ==
  \A k \in GateCalls :
    reports[k].responses # <<>> =>
      /\ reports[k].score =
           Round(CompositeTimes10N(llmOutputText, reports[k].responses),
                 10 * Len(reports[k].responses))
      /\ reports[k].passesGate <=>
           CompositeTimes10N(llmOutputText, reports[k].responses)
             >= 7000 * Len(reports[k].responses)
      /\ (Len(reports[k].responses) >= 3 /\ reports[k].issues = <<>>) =>
           reports[k].score = 1000 /\ reports[k].passesGate

\* three or more units without a deduction, reported with score 1.0 and passing
CleanBatchPasses ==
  \E k \in GateCalls :
    /\ Len(reports[k].responses) >= 3
    /\ reports[k].issues = <<>>
    /\ reports[k].score = 1000
    /\ reports[k].passesGate

\* the declared probabilities of the units sum to more than 1.0
SumsOverOne(units) == ~ProbSum(units).nan /\ ProbSum(units).v > 1000

\* a declared probability that is no number in [0, 1]
OutOfRange(p) == p.nan \/ p.v < 0 \/ p.v > 1000

\* the number of probability-category critical issues of the report of call k
ProbabilityIssues(k) ==
  Cardinality({j \in 1..Len(reports[k].issues) :
                 /\ reports[k].issues[j].category = "probability"
                 /\ reports[k].issues[j].severity = "critical"})

\* the document score without the deduction for the probability sum
DocumentScoreBeforeSum(text, units) ==
  1000
  - 300 * Indicator(CountKind(text, {"<response>"}) # CountKind(text, {"</response>"}))
  - 150 * Indicator(Len(units) < 3)
  - 100 * Indicator({HasScores(units[j].text) : j \in 1..Len(units)} = {TRUE, FALSE})

\* C15: when the probabilities of the parsed units sum to more than 1.0, the
\* report has a probability-category critical issue for the batch, besides one
\* for each unit out of range, and its score is the composite of a document
\* score reduced by 0.2.
ProbabilitySumPenalised ==
  \A k \in GateCalls :
    SumsOverOne(reports[k].responses) =>
      /\ ProbabilityIssues(k) =
           1 + Cardinality({j \in 1..Len(reports[k].responses) :
                              OutOfRange(reports[k].responses[j].probability)})
      /\ reports[k].score =
           Round(Max2(0, Min2(10000 * Len(reports[k].responses),
                   4 * (DocumentScoreBeforeSum(llmOutputText, reports[k].responses) - 200)
                     * Len(reports[k].responses)
                   + 6 * UnitScoreSum(reports[k].responses))),
                 10 * Len(reports[k].responses))

\* a batch whose probabilities are each in range and sum to more than 1.0
InRangeBatchSumsOverOne ==
  \E k \in GateCalls :
    /\ SumsOverOne(reports[k].responses)
    /\ \A j \in 1..Len(reports[k].responses) :
         ~OutOfRange(reports[k].responses[j].probability)
    /\ ProbabilityIssues(k) = 1

\* the text with every injection artifact replaced by other words as long
Neutral(text) ==
  [i \in 1..Len(text) |-> IF text[i].t = "inject" THEN Prose(text[i].len) ELSE text[i]]

\* what scoreResponse takes off the score of a unit, before clamping
Deducted(unit) == SumDeduct(ResponseChecks(unit))

\* the number of injection-category critical issues in a sequence of issues
InjectionIssues(issues) ==
  Cardinality({j \in 1..Len(issues) :
                 issues[j].category = "injection" /\ issues[j].severity = "critical"})

\* what C16 says of one unit
OneInjectionPenalty(unit) ==
  IF MatchedPatterns(unit.text) # {}
  THEN /\ InjectionIssues(scoreResponse(unit).issues) = 1
       /\ Deducted(unit) = 400 + Deducted([unit EXCEPT !.text = Neutral(unit.text)])
  ELSE /\ InjectionIssues(scoreResponse(unit).issues) = 0
       /\ Neutral(unit.text) = unit.text

\* C16: a unit whose text matches one or more injection patterns gets exactly
\* one injection-category critical issue and loses exactly 0.4 before clamping
\* (against the same text without the artifacts), however many patterns match;
\* a unit matching none gets no injection issue; so the report holds one
\* injection issue for each unit that matches.
InjectionPenalisedOnce ==
  \A k \in GateCalls :
    /\ \A j \in 1..Len(reports[k].responses) : OneInjectionPenalty(reports[k].responses[j])
    /\ InjectionIssues(reports[k].issues) =
         Cardinality({j \in 1..Len(reports[k].responses) :
                        MatchedPatterns(reports[k].responses[j].text) # {}})

\* a scored unit whose text matches two of the patterns
TwoPatternsMatched ==
  \E k \in GateCalls :
    /\ \E j \in 1..Len(reports[k].responses) :
         Cardinality(MatchedPatterns(reports[k].responses[j].text)) >= 2
    /\ InjectionIssues(reports[k].issues) >= 1

\* the text has as many <response> markers as </response> markers
Balanced(text) == CountKind(text, {"<response>"}) = CountKind(text, {"</response>"})

\* the number of xml-category critical issues of the report of call k
XmlIssues(k) ==
  Cardinality({j \in 1..Len(reports[k].issues) :
                 /\ reports[k].issues[j].category = "xml"
                 /\ reports[k].issues[j].severity = "critical"})

\* the issues scoreResponse finds in the units, unit after unit
RECURSIVE UnitIssuesOf(_)
UnitIssuesOf(units) ==
  IF units = <<>> THEN <<>>
  ELSE scoreResponse(units[1]).issues \o UnitIssuesOf(Tail(units))

\* the issues of s from place i on
From(s, i) == SubSeq(s, i, Len(s))

\* the units of the text are returned, and the issues of each are reported
\* after the document's (the consistency warning alone may follow them)
UnitsReturnedAndScored(k) ==
  /\ reports[k].responses = parseResponses(llmOutputText)
  /\ \E i \in 1..(Len(reports[k].issues) + 1) :
       \/ From(reports[k].issues, i) = UnitIssuesOf(reports[k].responses)
       \/ From(reports[k].issues, i) =
            UnitIssuesOf(reports[k].responses) \o <<Issue("consistency", "warning")>>

\* C17 as stated: a text with mismatched markers gets a report with exactly
\* one xml-category critical entry, and its units are returned and scored.
MismatchReportedOnce ==
  \A k \in GateCalls :
    ~Balanced(llmOutputText) => XmlIssues(k) = 1 /\ UnitsReturnedAndScored(k)

\* C17, amended: a text with mismatched markers gets a report; it holds
\* exactly one xml-category critical entry when a unit is parsed, and these
\* units are returned and scored; it holds two such entries, no unit and the
\* score 0 when no unit is parsed.
MismatchReportedOnceWithUnits ==
  \A k \in GateCalls :
    ~Balanced(llmOutputText) =>
      IF parseResponses(llmOutputText) # <<>>
      THEN XmlIssues(k) = 1 /\ UnitsReturnedAndScored(k)
      ELSE /\ XmlIssues(k) = 2
           /\ Len(reports[k].issues) = 2
           /\ reports[k].responses = <<>>
           /\ reports[k].score = 0
           /\ ~reports[k].passesGate

\* a text with mismatched markers and a unit that is parsed and penalised
MismatchedWithUnits ==
  \E k \in GateCalls :
    /\ ~Balanced(llmOutputText)
    /\ Len(reports[k].responses) >= 1
    /\ UnitIssuesOf(reports[k].responses) # <<>>
    /\ XmlIssues(k) = 1

Categories ==
  {"xml", "probability", "rubric", "structure", "injection", "formatting",
   "completeness", "consistency"}
Severities == {"critical", "warning", "info"}

\* a value qualityGate returns (and no exception): a report with each field
WellFormedReport(report) ==
  /\ DOMAIN report = {"score", "issues", "responses", "passesGate", "threshold"}
  /\ report.score \in 0..1000
  /\ report.passesGate \in BOOLEAN
  /\ report.threshold = QUALITY_THRESHOLD
  /\ \A j \in 1..Len(report.issues) :
       /\ report.issues[j].category \in Categories
       /\ report.issues[j].severity \in Severities
  /\ \A j \in 1..Len(report.responses) :
       /\ DOMAIN report.responses[j] = {"text", "probability"}
       /\ report.responses[j].probability.nan \in BOOLEAN

\* a unit whose probability is no number loses 0.3 for it, as one out of
\* range does, and the issue is the first of the unit
NaNPenalised(unit) ==
  unit.probability.nan =>
    /\ scoreResponse(unit).issues # <<>>
    /\ scoreResponse(unit).issues[1] = Issue("probability", "critical")
    /\ Deducted(unit)
         = 300 + Deducted([unit EXCEPT !.probability = Number(500)])
    /\ Deducted(unit) = Deducted([unit EXCEPT !.probability = Number(1500)])

\* C19: qualityGate and parseResponses return a value for every text (empty,
\* without markers, with unbalanced markers, with a probability that is no
\* number or out of range); a probability that is no number is carried as NaN
\* and penalised as one out of range.
TotalOverTexts ==
  /\ \A k \in GateCalls :
       /\ WellFormedReport(reports[k])
       /\ reports[k].responses = parseResponses(llmOutputText)
       /\ \A j \in 1..Len(reports[k].responses) : NaNPenalised(reports[k].responses[j])
       /\ ProbabilityIssues(k) =
            Indicator(SumsOverOne(reports[k].responses))
            + Cardinality({j \in 1..Len(reports[k].responses) :
                             OutOfRange(reports[k].responses[j].probability)})
  /\ \A j \in 1..Len(elsewhere) :
       IF elsewhere[j].fn = "qualityGate" THEN WellFormedReport(elsewhere[j].value)
       ELSE elsewhere[j].value.responses = parseResponses(OtherText)

\* a report on a text with a unit whose probability is no number
NaNProbabilityReported ==
  \E k \in GateCalls :
    /\ \E j \in 1..Len(reports[k].responses) : reports[k].responses[j].probability.nan
    /\ ProbabilityIssues(k) >= 1
    /\ WellFormedReport(reports[k])

\* the markers that open a block and its two fields
OpeningMarkers == {"<response>", "<text>", "<probability>"}

\* the places in s, from i on, where the matches of the scan begin
RECURSIVE MatchStarts(_, _)
MatchStarts(s, i) ==
  IF {j \in i..Len(s) : MatchAt(s, j).ok} = {} THEN <<>>
  ELSE <<Min({j \in i..Len(s) : MatchAt(s, j).ok})>>
       \o MatchStarts(s, MatchAt(s, Min({j \in i..Len(s) : MatchAt(s, j).ok})).last + 1)

\* the units are those of the matches at the given places, which ascend, and
\* neither capture of a match holds an opening marker
InOrderWithinBlocks(s, units, starts) ==
  /\ Len(units) = Len(starts)
  /\ \A j \in 1..Len(starts) :
       /\ j > 1 => starts[j - 1] < starts[j]
       /\ units[j] = Unit(MatchAt(s, starts[j]))
       /\ CountKind(units[j].text, OpeningMarkers) = 0
       /\ CountKind(MatchAt(s, starts[j]).prob, OpeningMarkers) = 0

\* C20: parseResponses returns the units in document order, and neither the
\* text nor the probability of a unit spans a <response>, <text> or
\* <probability> marker of a later block, also when blocks are malformed.
UnitsKeepToTheirBlock ==
  \A k \in GateCalls :
    InOrderWithinBlocks(llmOutputText, reports[k].responses, MatchStarts(llmOutputText, 1))

-----------------------------------------------------------------------------
(* Properties of evaluateWithExperiment                                    *)

\* the invocations of evaluateWithExperiment
Experiments == {i \in Invocations : inv[i].fn = "evaluateWithExperiment"}

\* the calls the selected variant takes before the gate: an Anthropic variant
\* with a system prompt of its own is called twice
VariantCalls(i) ==
  IF inv[i].variant.provider = "anthropic" /\ inv[i].variant.systemPrompt THEN 2 ELSE 1

\* the variant of invocation i has answered and its answer has been gated
VariantAnswered(i) ==
  Len(log[i]) >= VariantCalls(i) /\ Completed(i, VariantCalls(i))

\* the gate score of the variant's answer is below the variant's threshold,
\* or below the router's when the variant declares none
FailsItsGate(i) ==
  inv[i].gate.score <
    (IF inv[i].variant.qualityThreshold # 0 THEN inv[i].variant.qualityThreshold
     ELSE config.qualityThreshold)

\* callAnthropic was called as the fallback of invocation i
FallbackCalled(i) == Len(log[i]) > VariantCalls(i)

\* C23: with allowEscalation true, evaluateWithExperiment calls the Anthropic
\* fallback only after the variant's answer failed its gate (the variant's
\* threshold, or the router's when it declares none) and at most once; an
\* invocation that has settled has called it exactly when the variant
\* answered and failed its gate; and once the fallback has answered, its
\* answer is returned with escalated true whatever its own gate says.
FallbackExactlyOnGateFailure ==
  \A i \in Experiments :
    config.allowEscalation =>
      /\ Len(log[i]) <= VariantCalls(i) + 1
      /\ FallbackCalled(i) =>
           /\ VariantAnswered(i)
           /\ FailsItsGate(i)
           /\ log[i][Len(log[i])].provider = "anthropic"
      /\ (HasReturned(i) \/ HasRejected(i)) =>
           (FallbackCalled(i) <=> (VariantAnswered(i) /\ FailsItsGate(i)))
      /\ (FallbackCalled(i) /\ Completed(i, Len(log[i]))) =>
           /\ Serves(i, Len(log[i]))
           /\ result[i].value.provider = "anthropic"
           /\ result[i].value.escalated
      /\ (HasReturned(i) /\ ~FallbackCalled(i)) => ~result[i].value.escalated

\* a fallback answer that fails the gate was returned for a variant whose
\* answer had failed the gate
FailingFallbackReturned ==
  \E i \in Experiments :
    /\ config.allowEscalation
    /\ FallbackCalled(i)
    /\ HasReturned(i)
    /\ result[i].value.escalated
    /\ result[i].value.quality < QUALITY_THRESHOLD

\* invocation i is past step 4: it has returned or called the fallback
Decided(i) ==
  VariantAnswered(i) /\ inv[i].pc \in {"fallback", "returned", "rejected"}

\* the threshold step 2 computes for invocation i
ThresholdAt(i) ==
  IF inv[i].variant.qualityThreshold # 0 THEN inv[i].variant.qualityThreshold
  ELSE config.qualityThreshold

\* the issues without the schema warnings step 3 may have added
RECURSIVE WithoutSchemaIssues(_)
WithoutSchemaIssues(issues) ==
  IF issues = <<>> THEN <<>>
  ELSE IF issues[1].category = "schema" THEN WithoutSchemaIssues(Tail(issues))
  ELSE <<issues[1]>> \o WithoutSchemaIssues(Tail(issues))

\* the schema-category issues among the issues are warnings
SchemaIssuesAreWarnings(issues) ==
  \A k \in 1..Len(issues) :
    issues[k].category = "schema" => issues[k].severity = "warning"

\* C24: two runs of evaluateWithExperiment on the same provider output with
\* the same threshold (and the router's allowEscalation) take the same
\* decision at step 4, whether the variant's schema rejected the units,
\* accepted them or was not declared; their gates differ only in the schema
\* warnings added, and schemaValid is false exactly for the run with them.
DecisionIgnoresSchema ==
  \A i, j \in Experiments :
    (/\ Decided(i) /\ Decided(j)
     /\ inv[i].primary.outputText = inv[j].primary.outputText
     /\ ThresholdAt(i) = ThresholdAt(j)) =>
      /\ FallbackCalled(i) <=> FallbackCalled(j)
      /\ inv[i].gate.score = inv[j].gate.score
      /\ inv[i].gate.responses = inv[j].gate.responses
      /\ WithoutSchemaIssues(inv[i].gate.issues) = WithoutSchemaIssues(inv[j].gate.issues)
      /\ SchemaIssuesAreWarnings(inv[i].gate.issues)
      /\ inv[i].schemaValid <=> (WithoutSchemaIssues(inv[i].gate.issues) = inv[i].gate.issues)

\* the same output with the same threshold, rejected by the schema of one
\* variant and not validated by the other, and both returned unescalated
SchemaRejectedAndNotDeclared ==
  \E i, j \in Experiments :
    /\ Decided(i) /\ Decided(j)
    /\ inv[i].primary.outputText = inv[j].primary.outputText
    /\ ThresholdAt(i) = ThresholdAt(j)
    /\ ~inv[i].schemaValid /\ inv[j].schemaValid
    /\ inv[i].variant.outputSchema /\ ~inv[j].variant.outputSchema
    /\ HasReturned(i) /\ HasReturned(j)
    /\ ~result[i].value.escalated /\ ~result[j].value.escalated

\* the invocations of evaluateWithExperiment that returned a result under
\* the variant id
ReturnedUnder(id) ==
  {i \in Experiments : HasReturned(i) /\ result[i].value.variantId = id}

\* the samples recorded under id (none when the Map has no such key)
SamplesOf(id) == IF id \in DOMAIN metrics THEN metrics[id] ELSE <<>>

\* the sample is that of invocation i's result, under its selected variant
SampleOfResult(sample, i) ==
  /\ sample.qualityScore = result[i].value.quality
  /\ sample.escalated = result[i].value.escalated
  /\ sample.schemaValid = result[i].value.schemaValid
  /\ result[i].value.variantId = inv[i].variant.id

\* C26: however the invocations of evaluateWithExperiment interleave, the
\* experiment holds one sample for each invocation that returned a result,
\* under its selected variant and with the result's quality and escalated,
\* and no other: invocations that raised or have not finished add none, and
\* no sample is lost or recorded twice.
OneSamplePerReturnedInvocation ==
  /\ DOMAIN metrics \subseteq {experiment.variants[k].id : k \in 1..Len(experiment.variants)}
  /\ \A id \in {experiment.variants[k].id : k \in 1..Len(experiment.variants)} :
       /\ Len(SamplesOf(id)) = Cardinality(ReturnedUnder(id))
       /\ \E f \in [ReturnedUnder(id) -> 1..Len(SamplesOf(id))] :
            /\ \A i, j \in ReturnedUnder(id) : f[i] = f[j] => i = j
            /\ \A i \in ReturnedUnder(id) : SampleOfResult(SamplesOf(id)[f[i]], i)

\* two invocations have finished under one variant, one escalated and one
\* not, and the variant's list holds their two samples
TwoSamplesUnderOneVariant ==
  \E i, j \in Experiments : \E id \in DOMAIN metrics :
    /\ i # j
    /\ {i, j} \subseteq ReturnedUnder(id)
    /\ result[i].value.escalated /\ ~result[j].value.escalated
    /\ Len(metrics[id]) = 2
    /\ metrics[id][1] # metrics[id][2]

-----------------------------------------------------------------------------
(* Properties of defineExperiment, selectVariant, recordMetric,            *)
(* getExperimentStats and pickWinner                                       *)

\* the weight the caller gave variant k, a missing one counting as 1
GivenWeight(k) == IF callerVariants[k].weight = 0 THEN 1 ELSE callerVariants[k].weight

\* C21: defineExperiment returns the caller's variants in their order, each
\* with its weight (a missing one counting as 1) divided by the sum of all
\* weights, so that the normalized weights sum to 1; the caller's variants
\* keep the weights they were written with.
WeightsNormalized ==
  abTest # NotDefined =>
    /\ Len(abTest.variants) = Len(callerVariants)
    /\ \A k \in 1..Len(callerVariants) :
         /\ abTest.variants[k] =
              [callerVariants[k] EXCEPT !.weight = abTest.variants[k].weight]
         /\ abTest.variants[k].weight.den > 0
         /\ abTest.variants[k].weight.num
              * Total([j \in 1..Len(callerVariants) |-> GivenWeight(j)],
                      1, Len(callerVariants))
              = GivenWeight(k) * abTest.variants[k].weight.den
         /\ abTest.variants[k].weight.den = abTest.variants[1].weight.den
    /\ Total([j \in 1..Len(abTest.variants) |-> abTest.variants[j].weight.num],
             1, Len(abTest.variants))
         = abTest.variants[1].weight.den
    /\ callerVariants \in VariantLists

\* an experiment defined with variants that give no weight: one half each
MissingWeightsShareEvenly ==
  /\ abTest # NotDefined
  /\ Len(callerVariants) = 2
  /\ \A k \in 1..2 :
       /\ callerVariants[k].weight = 0
       /\ abTest.variants[k].weight.num * 2 = abTest.variants[k].weight.den

\* the cumulative normalized weight of the first k variants reaches r
Reaches(k, r) ==
  r.num * abTest.variants[1].weight.den
    <= Total([j \in 1..k |-> abTest.variants[j].weight.num], 1, k) * r.den

\* C22: for a draw r, selectVariant returns the first variant in definition
\* order whose cumulative normalized weight is at least r, and the last one
\* when none is; the variant is one of the experiment's, and the call leaves
\* the experiment as it was defined, so that later calls choose alike.
FirstVariantReachingDraw ==
  answer.fn = "selectVariant" =>
    /\ \E k \in 1..Len(abTest.variants) :
         /\ answer.value = abTest.variants[k]
         /\ \/ Reaches(k, answer.rand) /\ \A j \in 1..(k - 1) : ~Reaches(j, answer.rand)
            \/ k = Len(abTest.variants)
                 /\ \A j \in 1..Len(abTest.variants) : ~Reaches(j, answer.rand)
    /\ abTest = defineExperiment("test", callerVariants)

\* a draw that equals the cumulative weight of the first of several variants
\* selects that variant
DrawOnTheBoundary ==
  /\ answer.fn = "selectVariant"
  /\ Len(abTest.variants) >= 2
  /\ answer.rand.num * abTest.variants[1].weight.den
       = abTest.variants[1].weight.num * answer.rand.den
  /\ answer.value = abTest.variants[1]

\* the step appends times copies of one sample to the list of one variant
\* and leaves every other list as it is
Appends(times) ==
  \E id \in Ids \cup {Unlisted} : \E sample \in Samples :
    /\ DOMAIN metrics' = DOMAIN metrics \cup {id}
    /\ metrics'[id] = MetricsOf(metrics, id) \o [k \in 1..times |-> sample]
    /\ \A other \in DOMAIN metrics \ {id} : metrics'[other] = metrics[other]

\* the step appends the given number of copies of a sample to each of two
\* lists and changes no other list
AppendsToTwo(times) ==
  \E a, b \in Ids : \E sampleA, sampleB \in Samples :
    /\ a # b
    /\ DOMAIN metrics' = DOMAIN metrics \cup {a, b}
    /\ metrics'[a] = MetricsOf(metrics, a) \o [k \in 1..times |-> sampleA]
    /\ metrics'[b] = MetricsOf(metrics, b) \o [k \in 1..times |-> sampleB]
    /\ \A other \in DOMAIN metrics \ {a, b} : metrics'[other] = metrics[other]

\* what every step of the user does to the experiment's lists
MetricsStep ==
  /\ \A id \in DOMAIN metrics :
       /\ id \in DOMAIN metrics'
       /\ Len(metrics'[id]) >= Len(metrics[id])
       /\ SubSeq(metrics'[id], 1, Len(metrics[id])) = metrics[id]
  /\ IF answer'.fn = "recordMetric"
       THEN /\ IF answer'.pair THEN AppendsToTwo(answer'.times)
               ELSE Appends(answer'.times)
            /\ abTest' = abTest
       ELSE metrics' = metrics
  /\ abTest # NotDefined => abTest' = abTest

\* C25: the metric lists of an experiment only grow at their ends: a call of
\* recordMetric appends exactly one sample to the end of the variant's list
\* and leaves the samples already there, the other lists and the variants
\* with their weights as they are; selectVariant, getExperimentStats and
\* pickWinner change no list.
MetricsAppendOnly == [][MetricsStep]_vars

\* a list that two calls have appended to was then read by pickWinner or
\* getExperimentStats
GrownListRead ==
  /\ answer.fn \in {"pickWinner", "getExperimentStats"}
  /\ \E id \in DOMAIN metrics :
       /\ Len(metrics[id]) >= 2
       /\ metrics[id][1] # metrics[id][Len(metrics[id])]

\* the stats the last call returned, when it returned any
StatsAnswered == answer.fn \in {"getExperimentStats", "pickWinner"}
LastStats == IF answer.fn = "pickWinner" THEN answer.value.stats ELSE answer.value

\* v is the element of the given rank (1 for the smallest) among the values
\* of the field in the samples
HasRank(v, rank, samples, field) ==
  /\ Cardinality({i \in 1..Len(samples) : samples[i][field] < v}) < rank
  /\ rank <= Cardinality({i \in 1..Len(samples) : samples[i][field] <= v})

\* c is the ceiling of n * num / den
IsCeiling(c, n, num, den) == c * den >= n * num /\ (c - 1) * den < n * num

\* the percentiles of the samples' field are the nearest-rank ones
NearestRank(stat, samples, field) ==
  \E r50, r95 \in 1..Len(samples) :
    /\ IsCeiling(r50, Len(samples), 1, 2)
    /\ IsCeiling(r95, Len(samples), 19, 20)
    /\ HasRank(stat.p50, r50, samples, field)
    /\ HasRank(stat.p95, r95, samples, field)
    /\ Len(samples) = 10 => r50 = 5 /\ r95 = 10

\* C27: for every variant with samples, the p50 and p95 getExperimentStats
\* reports are the elements at index ceil(n * p) - 1 of the samples sorted in
\* ascending order (for n = 10 the 5th and the 10th smallest), and
\* min <= p50 <= p95 <= max.
PercentilesAreNearestRank ==
  StatsAnswered =>
    \A k \in 1..Len(LastStats.variants) :
      LastStats.variants[k].s.samples > 0 =>
        /\ LastStats.variants[k].s.samples = Len(metrics[LastStats.variants[k].id])
        /\ NearestRank(LastStats.variants[k].s.quality,
                       metrics[LastStats.variants[k].id], "qualityScore")
        /\ NearestRank(LastStats.variants[k].s.latency,
                       metrics[LastStats.variants[k].id], "latencyMs")
        /\ LastStats.variants[k].s.quality.min <= LastStats.variants[k].s.quality.p50
        /\ LastStats.variants[k].s.quality.p50 <= LastStats.variants[k].s.quality.p95
        /\ LastStats.variants[k].s.quality.p95 <= LastStats.variants[k].s.quality.max

\* the stats of ten samples recorded in descending order of quality, whose
\* p50 and p95 differ
TenUnsortedSamples ==
  /\ answer.fn = "getExperimentStats"
  /\ \E k \in 1..Len(answer.value.variants) :
       /\ answer.value.variants[k].s.samples = 10
       /\ answer.value.variants[k].s.quality.p50 < answer.value.variants[k].s.quality.p95
       /\ metrics[answer.value.variants[k].id][1].qualityScore
            > metrics[answer.value.variants[k].id][10].qualityScore

\* minSamples of the last call of pickWinner: 5 unless the options set it
MinSamplesAsked ==
  IF "minSamples" \in DOMAIN answer.options THEN answer.options.minSamples ELSE 5

\* the places of the variants with at least minSamples recorded samples
EnoughSamples ==
  {k \in 1..Len(abTest.variants) :
     Len(MetricsOf(metrics, abTest.variants[k].id)) >= MinSamplesAsked}

SamplesAt(k) == MetricsOf(metrics, abTest.variants[k].id)
QualitySum(k) == Total(Column(SamplesAt(k), "qualityScore"), 1, Len(SamplesAt(k)))

\* the quality mean of a is more than 0.10 above that of b
LeadsByTenth(a, b) ==
  QualitySum(a) * Len(SamplesAt(b)) - QualitySum(b) * Len(SamplesAt(a))
    > 100 * Len(SamplesAt(a)) * Len(SamplesAt(b))

\* qualityMean * (1 - 0.5 * escalationRate) of the variant at place k
PenalisedScore(k) ==
  Ratio(QualitySum(k) * (2 * Len(SamplesAt(k)) - Count(SamplesAt(k), "escalated")),
        2 * Len(SamplesAt(k)) * Len(SamplesAt(k)))

\* pickWinner was called without options and just a and b are eligible
TwoEligible(a, b) ==
  /\ answer.fn = "pickWinner"
  /\ answer.options = NoOptions
  /\ a # b
  /\ EnoughSamples = {a, b}

\* C29 as stated: of two eligible variants, the one with at least 30 samples
\* whose quality mean is more than 0.10 above the other's is the winner, with
\* confidence "high", whatever the escalation rates.
LeaderWinsWithHighConfidence ==
  \A a, b \in 1..Len(abTest.variants) :
    (TwoEligible(a, b) /\ Len(SamplesAt(a)) >= 30 /\ LeadsByTenth(a, b)) =>
      /\ answer.value.winner = abTest.variants[a]
      /\ answer.value.confidence = "high"

\* C29, amended: of two eligible variants, the one with at least 30 samples
\* whose quality mean is more than 0.10 above the other's is the winner, with
\* confidence "high", provided its score qualityMean * (1 - 0.5 *
\* escalationRate) is above the other's too, or equal to it with the variant
\* defined first; with a lower score the other variant wins, with
\* confidence "low".
LeaderWinsUnlessOutscored ==
  \A a, b \in 1..Len(abTest.variants) :
    (TwoEligible(a, b) /\ Len(SamplesAt(a)) >= 30 /\ LeadsByTenth(a, b)) =>
      IF \/ Greater(PenalisedScore(a), PenalisedScore(b))
         \/ PenalisedScore(a) = PenalisedScore(b) /\ a < b
        THEN /\ answer.value.winner = abTest.variants[a]
             /\ answer.value.confidence = "high"
        ELSE /\ answer.value.winner = abTest.variants[b]
             /\ answer.value.confidence = "low"

\* thirty samples against five, a lead of more than 0.10 and unlike
\* escalation rates: the leader wins with confidence "high"
LeaderWithThirtySamplesWins ==
  \E a, b \in 1..Len(abTest.variants) :
    /\ TwoEligible(a, b)
    /\ Len(SamplesAt(a)) = 30
    /\ LeadsByTenth(a, b)
    /\ Count(SamplesAt(a), "escalated") * Len(SamplesAt(b))
         # Count(SamplesAt(b), "escalated") * Len(SamplesAt(a))
    /\ answer.value.winner = abTest.variants[a]
    /\ answer.value.confidence = "high"

\* optimizeFor of the last call of pickWinner: "quality" unless the options
\* set it
ModeAsked ==
  IF "optimizeFor" \in DOMAIN answer.options THEN answer.options.optimizeFor
  ELSE "quality"

\* the score of the variant at place k in the mode asked for
ModeScore(k) ==
  IF ModeAsked = "quality" THEN PenalisedScore(k)
  ELSE IF ModeAsked = "cost"
    THEN Ratio(QualitySum(k),
               Total(Column(SamplesAt(k), "tokenCount"), 1, Len(SamplesAt(k))))
  ELSE Ratio(1000 * QualitySum(k),
             Total(Column(SamplesAt(k), "latencyMs"), 1, Len(SamplesAt(k))))

\* C30: with two or more eligible variants, the winner of pickWinner is the
\* eligible variant with the highest score of the mode (quality:
\* qualityMean * (1 - 0.5 * escalationRate); cost: qualityMean / tokenMean;
\* latency: qualityMean / latencyMean * 1000), and of several with that
\* score the one defined first.
WinnerHasHighestModeScore ==
  (answer.fn = "pickWinner" /\ Cardinality(EnoughSamples) >= 2) =>
    \E k \in EnoughSamples :
      /\ answer.value.winner = abTest.variants[k]
      /\ \A j \in EnoughSamples :
           /\ ~Greater(ModeScore(j), ModeScore(k))
           /\ j < k => Greater(ModeScore(k), ModeScore(j))

\* two eligible variants with equal scores: the one defined first has won
EqualScoresFirstWins ==
  /\ answer.fn = "pickWinner"
  /\ \E a, b \in EnoughSamples :
       /\ a < b
       /\ ModeScore(a) = ModeScore(b)
       /\ answer.value.winner = abTest.variants[a]

\* the quality mean of a is more than margin thousandths above that of b
LeadsBy(a, b, margin) ==
  QualitySum(a) * Len(SamplesAt(b)) - QualitySum(b) * Len(SamplesAt(a))
    > margin * Len(SamplesAt(a)) * Len(SamplesAt(b))

\* the variant at place k has at least the samples given and its quality
\* mean is more than margin above that of the best other eligible variant
LeadsRunnerUp(k, samples, margin) ==
  /\ Len(SamplesAt(k)) >= samples
  /\ \A j \in EnoughSamples \ {k} : LeadsBy(k, j, margin)

\* C31: when pickWinner declares a winner, the confidence is "high" exactly
\* when the winner has at least 30 samples and its quality mean is more than
\* 0.10 above the runner-up's, otherwise "medium" exactly when it has at least
\* 10 samples and the gap is more than 0.05, otherwise "low"; a winner with
\* "high" or "medium" has the highest quality mean of the eligible variants.
ConfidenceFromSamplesAndGap ==
  (answer.fn = "pickWinner" /\ answer.value.winner # NullVariant) =>
    \E k \in EnoughSamples :
      /\ answer.value.winner = abTest.variants[k]
      /\ answer.value.confidence =
           IF LeadsRunnerUp(k, 30, 100) THEN "high"
           ELSE IF LeadsRunnerUp(k, 10, 50) THEN "medium"
           ELSE "low"
      /\ answer.value.confidence \in {"high", "medium"} =>
           \A j \in EnoughSamples \ {k} : LeadsBy(k, j, 0)

\* of three eligible variants the winner has ten samples and leads the
\* runner-up, who is not the first of the others, by more than 0.05
MediumOverLaterRunnerUp ==
  /\ answer.fn = "pickWinner"
  /\ answer.value.confidence = "medium"
  /\ EnoughSamples = {1, 2, 3}
  /\ answer.value.winner = abTest.variants[1]
  /\ Len(SamplesAt(1)) = 10
  /\ LeadsBy(3, 2, 0)

-----------------------------------------------------------------------------
(* Properties of evaluate: termination and timing                          *)

\* C32: every invocation of evaluate eventually returns a result or raises,
\* also when a provider call never responds.
EvaluateEventuallySettles ==
  \A i \in Invocations : (inv[i].fn = "evaluate") ~> (result[i] # Pending)

\* the latencies of the calls of invocation i that a provider answered
RECURSIVE AnsweredLatency(_, _)
AnsweredLatency(lg, k) ==
  IF k = 0 THEN 0
  ELSE AnsweredLatency(lg, k - 1)
         + (IF lg[k].outcome = "ok" THEN LatencyOf[lg[k].provider] ELSE 0)

\* C33: a result of evaluate with escalated false has timing.escalation 0,
\* and the latency of each tier called is counted in exactly one of
\* timing.primary and timing.escalation.
EscalationTimeOnlyWhenEscalated ==
  \A i \in Invocations :
    (inv[i].fn = "evaluate" /\ result[i].status = "returned") =>
      /\ ~result[i].value.escalated => result[i].value.timing.escalation = 0
      /\ result[i].value.timing.primary + result[i].value.timing.escalation
           = AnsweredLatency(log[i], Len(log[i]))

-----------------------------------------------------------------------------
(* Properties of qualityGate: the report without units, and the score      *)

\* C34 as stated: when no unit is parsed, the issues of the report are a
\* single critical issue, also for texts with unbalanced markers.
NoUnitsSingleIssue ==
  \A k \in GateCalls :
    parseResponses(llmOutputText) = <<>> =>
      /\ Len(reports[k].issues) = 1
      /\ reports[k].issues[1].severity = "critical"

\* C34, amended: when no unit is parsed, the issues of the report are the
\* critical xml issue of the parse, preceded by the critical xml issue of the
\* marker mismatch when the markers are unbalanced, and nothing else: no
\* count, probability-sum, per-unit or consistency issue.
NoUnitsOnlyXmlIssues ==
  \A k \in GateCalls :
    parseResponses(llmOutputText) = <<>> =>
      reports[k].issues =
        IF Balanced(llmOutputText) THEN <<Issue("xml", "critical")>>
        ELSE <<Issue("xml", "critical"), Issue("xml", "critical")>>

\* a text with unbalanced markers and no unit has been reported on
UnbalancedWithoutUnitsGated ==
  \E k \in GateCalls :
    /\ ~Balanced(llmOutputText)
    /\ parseResponses(llmOutputText) = <<>>
    /\ Len(reports[k].issues) = 2

\* the units of the reports with one to nine numbered rubric lines
PartlyNumbered ==
  {u \in UNION {UnitsOf(k) : k \in GateCalls} : FormatA(u.text) \in 1..9}

\* the most score-like lines of one format in the unit: numbered, free-form
\* (numbered ones and the total line among them) or tabular
BestCount(u) ==
  Max2(FormatA(u.text),
       Max2(CountKind(u.text, {"numbered", "labelled", "total"}),
            CountKind(u.text, {"table"})))

\* what the rubric check of scoreResponse made of the unit
RubricOutcome(u) == ResponseChecks(u)[2]

\* C35 as stated: a unit with k numbered rubric lines, 1 <= k <= 9, gets a
\* rubric warning and loses 0.1 * (10 - k) / 10, whatever its other score
\* lines and whether or not it has a Total line.
PartialRubricPenalised ==
  \A u \in PartlyNumbered :
    RubricOutcome(u) = [issues |-> <<Issue("rubric", "warning")>>,
                        deduct |-> 10 * (10 - FormatA(u.text))]

\* C35, amended: a unit with k numbered rubric lines, 1 <= k <= 9, gets a
\* rubric warning and loses 0.1 * (10 - k) / 10 when its best count of
\* score-like lines is below 10 and it has a Total line or that count is 5 or
\* more; with a best count below 5 and no Total line it gets a rubric info
\* issue and loses 0.05; with a best count of 10 or more the rubric check
\* finds nothing.
PartialRubricPenalisedByBestCount ==
  \A u \in PartlyNumbered :
    RubricOutcome(u) =
      IF BestCount(u) < 5 /\ CountKind(u.text, {"total"}) = 0
        THEN [issues |-> <<Issue("rubric", "info")>>, deduct |-> 50]
      ELSE IF BestCount(u) < 10
        THEN [issues |-> <<Issue("rubric", "warning")>>,
              deduct |-> 10 * (10 - FormatA(u.text))]
      ELSE [issues |-> <<>>, deduct |-> 0]

\* a report on two units with numbered lines: one penalised in proportion,
\* one with ten more score lines that the rubric check lets pass
PartialRubricBothWays ==
  \E u, v \in PartlyNumbered :
    /\ BestCount(u) < 10
    /\ RubricOutcome(u).deduct = 10 * (10 - FormatA(u.text))
    /\ BestCount(v) >= 10
    /\ RubricOutcome(v).issues = <<>>

-----------------------------------------------------------------------------
(* Properties of evaluateWithExperiment: the calls of one invocation       *)

\* the requests invocation i has sent to the provider
RequestsTo(i, provider) ==
  {k \in Calls(i) : log[i][k].provider = provider /\ log[i][k].outcome # "unconfigured"}

\* C36: within one invocation of evaluateWithExperiment no provider is called
\* more than once; a variant on the Anthropic tier is called once and its
\* result is returned without a further Anthropic call.
NoProviderCalledTwice ==
  \A i \in Experiments : \A provider \in Providers :
    Cardinality(RequestsTo(i, provider)) <= 1

\* C37: a report has score 0 exactly when its responses list is empty: with
\* one unit or more the score is at least 0.1, also when every deduction of
\* the document fires and every unit scores 0.
ScoreZeroIffNoUnits ==
  \A k \in GateCalls :
    /\ reports[k].score = 0 <=> reports[k].responses = <<>>
    /\ reports[k].responses # <<>> => reports[k].score >= 100

\* every deduction of the document has fired (mismatched markers, fewer than
\* three units, probabilities over 1.0, unlike structure) and each unit
\* scores 0: the report's score is 0.1
LowestScoreWithUnits ==
  \E k \in GateCalls :
    /\ ~Balanced(llmOutputText)
    /\ Len(reports[k].responses) = 2
    /\ SumsOverOne(reports[k].responses)
    /\ {HasScores(u.text) : u \in UnitsOf(k)} = {TRUE, FALSE}
    /\ \A u \in UnitsOf(k) : scoreResponse(u).score = 0
    /\ reports[k].score = 100

\* the report of call k holds an issue of critical severity
HasCritical(k) ==
  \E j \in 1..Len(reports[k].issues) : reports[k].issues[j].severity = "critical"

\* C38: a report that holds a critical issue (mismatched markers, a
\* probability out of range, probabilities summing to more than 1.0, an
\* injection artifact) has passesGate false.
CriticalIssueFailsGate ==
  \A k \in GateCalls : HasCritical(k) => ~reports[k].passesGate

-----------------------------------------------------------------------------
(* Properties of getExperimentStats: the sample counts                     *)

\* the samples counts of the per-variant entries of the last report
SamplesReported == [k \in 1..Len(LastStats.variants) |-> LastStats.variants[k].s.samples]

\* C39: after any calls of recordMetric, the totalSamples of a report of
\* getExperimentStats is the sum of the samples counts of its per-variant
\* entries, and each list of recorded samples is counted in exactly one entry.
TotalSamplesIsSumOfEntries ==
  StatsAnswered =>
    /\ LastStats.totalSamples = Total(SamplesReported, 1, Len(SamplesReported))
    /\ \A id \in DOMAIN metrics :
         \E k \in 1..Len(LastStats.variants) :
           /\ LastStats.variants[k].id = id
           /\ LastStats.variants[k].s.samples = Len(metrics[id])
           /\ \A j \in 1..Len(LastStats.variants) :
                LastStats.variants[j].id = id => j = k

-----------------------------------------------------------------------------
(* Properties of the bench server                                          *)

\* the runs of job j in the suite at place id
RunsOfIn(j, id) == {k \in 1..Len(suites[id].runs) : suites[id].runs[k].jobId = j}

\* a completed job has one run, in its own suite; any other job has none
RunsOfCompleted ==
  \A j \in 1..Len(jobs) : \A id \in 1..Len(suites) :
    Cardinality(RunsOfIn(j, id)) =
      IF jobs[j].status = "completed" /\ id = jobs[j].suiteId THEN 1 ELSE 0

\* the entry of results the step has added for job j is that of the catch
\* block
ErrorRecorded(j) ==
  /\ Len(jobs'[j].results) = Len(jobs[j].results) + 1
  /\ jobs'[j].results[Len(jobs'[j].results)].error # "null"

\* what a step does to the jobs there are, and the jobs it adds
JobStep ==
  /\ Len(jobs') >= Len(jobs)
  /\ \A j \in 1..Len(jobs) :
       /\ \/ jobs'[j].status = jobs[j].status
          \/ jobs[j].status = "queued" /\ jobs'[j].status = "running"
          \/ jobs[j].status = "running" /\ jobs'[j].status \in {"completed", "failed"}
       /\ ~Greater(jobs[j].progress, jobs'[j].progress)
       /\ ErrorRecorded(j) =>
            /\ jobs'[j].status \in {"running", "completed"}
            /\ SubSeq(jobs'[j].results, 1, Len(jobs[j].results)) = jobs[j].results
  /\ \A j \in (Len(jobs) + 1)..Len(jobs') :
       jobs'[j].status \in {"queued", "running"} /\ jobs'[j].progress = Ratio(0, 1)

\* C40: the status of a job only moves from queued to running and from
\* running to completed or failed, and stays as it is once completed or
\* failed; its progress never decreases; a test case whose evaluation raises
\* is recorded as an error result and the job goes on; a completed job has
\* exactly one run in its suite, also when jobs of one suite run at the same
\* time.
JobLifecycle == []RunsOfCompleted /\ [][JobStep]_vars

\* two jobs of one suite ran at the same time: the job started last was
\* completed first, the other after an error result, and each has its run
OverlappingJobsCompleted ==
  /\ Len(jobs) = 2
  /\ jobs[1].suiteId = jobs[2].suiteId
  /\ jobs[1].status = "completed" /\ jobs[2].status = "completed"
  /\ \E k \in 1..Len(jobs[1].results) : jobs[1].results[k].error # "null"
  /\ Len(suites[jobs[1].suiteId].runs) = 2
  /\ suites[jobs[1].suiteId].runs[1].jobId = 2

====
